---- MODULE Spec2Model ----
(***************************************************************************)
(* Verification model of the ckeditor5-engine sources:                     *)
(*   - Model (src/src/model/model.js): change scopes, the queue of pending  *)
(*     changes, the 'change' and 'changesDone' events;                      *)
(*   - Writer (src/src/ui/region.js, second part): the mutating methods     *)
(*     and the deltas / operations they produce;                            *)
(*   - the operational-transformation scenarios of src/unnamed/part_000;    *)
(*   - DomConverter (src/src/treeview/domconverter.js): the bindings of     *)
(*     DOM and view nodes and the conversions between the trees.            *)
(***************************************************************************)
EXTENDS Integers, Sequences, FiniteSets, TLC

(***************************************************************************)
(* A value computed once and used under a name.                            *)
(***************************************************************************)
Bind(v, Op(_)) == CHOOSE r \in {Op(x) : x \in {v}} : TRUE

Bind2(v, w, Op(_, _)) == CHOOSE r \in {Op(x, y) : x \in {v}, y \in {w}} : TRUE

(***************************************************************************)
(* Bounds of the model.                                                    *)
(***************************************************************************)
\* how many change() / enqueueChange() calls a behaviour makes in all
MaxCalls == 3

\* how many calls of the DomConverter a behaviour makes in all
MaxConversions == 3

(***************************************************************************)
(* Objects.  The model stores references to Batch and to Writer objects in *)
(* the same slots, so both are values of one shape.                        *)
(***************************************************************************)
\* the value of _currentWriter when no object is assigned (undefined / null)
Null == [kind |-> "null", n |-> 0]

Batch(i) == [kind |-> "Batch", n |-> i]

WriterObj(i) == [kind |-> "Writer", n |-> i]

\* Writer instances that exist in the program ( new Writer( model, batch ) )
Writers == {WriterObj(1)}

\* objects a caller can hand to enqueueChange() as its `batch` argument
GivenObjs == {Batch(0)} \cup Writers

VARIABLES
    pendingChanges,   \* Model._pendingChanges: sequence of [batch, callback]
    currentWriter,    \* Model._currentWriter
    stack,            \* the JavaScript call stack (innermost frame last)
    log,              \* what has happened so far, in order
    calls,            \* the change() / enqueueChange() calls made so far
    nBatches,         \* how many Batch objects change() has constructed
    nDrains,          \* how many times _runPendingChanges has been entered
    returned,         \* the last value a change() / enqueueChange() call returned
    world,            \* the trees, markers, document version and batch (see W below)
    clients,          \* two actors with a document each, and the operations they exchange
    view,             \* the view document of the FakeSelectionObserver tests and its last keydown
    engine,           \* a document's history and the foreign operation being brought up to it
    converter         \* a DomConverter with a view tree and a DOM tree

scopeVars == <<pendingChanges, currentWriter, stack, log, calls, nBatches, nDrains,
               returned>>

vars == <<pendingChanges, currentWriter, stack, log, calls, nBatches, nDrains,
          returned, world, clients, view, engine, converter>>

(***************************************************************************)
(* Call-stack frames and log entries.                                      *)
(***************************************************************************)
\* an activation of _runPendingChanges, entered from change() or enqueueChange()
RunFrame(from, c, d) ==
    [k |-> "run", from |-> from, pc |-> "callback", id |-> c, arg |-> Null, d |-> d,
     ret |-> <<>>]

\* an activation of a callback: from "queue" (model.js:75) or "nested" (model.js:51)
CbFrame(from, c, obj) ==
    [k |-> "cb", from |-> from, pc |-> "body", id |-> c, arg |-> obj, d |-> 0,
     ret |-> <<>>]

\* the listeners of one fired event
ListenerFrame(event) ==
    [k |-> "listener", from |-> event, pc |-> "body", id |-> 0, arg |-> Null, d |-> 0,
     ret |-> <<>>]

Ev(t, id, d) == [t |-> t, id |-> id, d |-> d]

Top == stack[Len(stack)]

\* the value callback c returns
Result(c) == c

InitScope ==
    /\ pendingChanges = <<>>
    /\ currentWriter = Null
    /\ stack = <<>>
    /\ log = <<>>
    /\ calls = <<>>
    /\ nBatches = 0
    /\ nDrains = 0
    /\ returned = [call |-> 0, value |-> 0]

\* mutant of runPendingChanges: runs the entry enqueued last, not the head
runPendingChanges_Lifo(below, q, run, lg) ==
    IF Len(q) > 0
    THEN [stack |-> below \o <<[run EXCEPT !.pc = "callback"],
                               CbFrame("queue", q[Len(q)].callback, q[Len(q)].batch)>>,
          cw |-> q[Len(q)].batch,
          log |-> Append(lg, Ev("cbStart", q[Len(q)].callback, run.d))]
    ELSE [stack |-> below \o <<[run EXCEPT !.pc = "changesDone"],
                               ListenerFrame("changesDone")>>,
          cw |-> Null,
          log |-> Append(lg, Ev("changesDone", 0, run.d))]

(***************************************************************************)
(* _runPendingChanges: the test of the while loop and what follows it up   *)
(* to the next call out of the method: the callback of the head entry, or, *)
(* with the queue empty, the listeners of 'changesDone'.                   *)
(***************************************************************************)
runPendingChanges(below, q, run, lg) ==
    IF Len(q) > 0
    THEN [stack |-> below \o <<[run EXCEPT !.pc = "callback"],
                               CbFrame("queue", q[1].callback, q[1].batch)>>,
          cw |-> q[1].batch,
          log |-> Append(lg, Ev("cbStart", q[1].callback, run.d))]
    ELSE [stack |-> below \o <<[run EXCEPT !.pc = "changesDone"],
                               ListenerFrame("changesDone")>>,
          cw |-> Null,
          log |-> Append(lg, Ev("changesDone", 0, run.d))]

\* mutant of change: a nested call opens a Batch of its own for its callback
change_NestedOpensBatch ==
    /\ Len(calls) < MaxCalls
    /\ LET c == Len(calls) + 1
           b == Batch(nBatches + 1)
       IN
       IF Len(pendingChanges) = 0
       THEN LET q == Append(pendingChanges, [batch |-> b, callback |-> c])
                d == nDrains + 1
                r == runPendingChanges(stack, q, RunFrame("change", c, d),
                                       Append(log, Ev("call", c, d)))
            IN  /\ pendingChanges' = q
                /\ currentWriter' = r.cw
                /\ stack' = r.stack
                /\ log' = r.log
                /\ nBatches' = nBatches + 1
                /\ nDrains' = d
                /\ calls' = Append(calls, [api |-> "change", batch |-> b,
                                           nested |-> FALSE])
       ELSE /\ stack' = Append(stack, CbFrame("nested", c, b))
            /\ log' = log \o <<Ev("call", c, 0), Ev("cbStart", c, 0)>>
            /\ calls' = Append(calls, [api |-> "change", batch |-> Null,
                                       nested |-> TRUE])
            /\ nBatches' = nBatches + 1
            /\ UNCHANGED <<pendingChanges, currentWriter, nDrains>>
    /\ UNCHANGED <<returned, world, clients, view, engine, converter>>

(***************************************************************************)
(* Model.change( callback ), up to the start of the callback.              *)
(***************************************************************************)
change ==
    /\ Len(calls) < MaxCalls
    /\ LET c == Len(calls) + 1 IN
       IF Len(pendingChanges) = 0
       THEN LET b == Batch(nBatches + 1)
                q == Append(pendingChanges, [batch |-> b, callback |-> c])
                d == nDrains + 1
                r == runPendingChanges(stack, q, RunFrame("change", c, d),
                                       Append(log, Ev("call", c, d)))
            IN  /\ pendingChanges' = q
                /\ currentWriter' = r.cw
                /\ stack' = r.stack
                /\ log' = r.log
                /\ nBatches' = nBatches + 1
                /\ nDrains' = d
                /\ calls' = Append(calls, [api |-> "change", batch |-> b,
                                           nested |-> FALSE])
       ELSE /\ stack' = Append(stack, CbFrame("nested", c, currentWriter))
            /\ log' = log \o <<Ev("call", c, 0), Ev("cbStart", c, 0)>>
            /\ calls' = Append(calls, [api |-> "change", batch |-> Null,
                                       nested |-> TRUE])
            /\ UNCHANGED <<pendingChanges, currentWriter, nBatches, nDrains>>
    /\ UNCHANGED <<returned, world, clients, view, engine, converter>>

(***************************************************************************)
(* Model.enqueueChange( batch, callback ), up to the start of the callback *)
(* (queue was empty) or to its return (a change is pending).               *)
(***************************************************************************)
enqueueChange(b) ==
    /\ Len(calls) < MaxCalls
    /\ LET c == Len(calls) + 1
           q == Append(pendingChanges, [batch |-> b, callback |-> c])
       IN  /\ pendingChanges' = q
           /\ calls' = Append(calls, [api |-> "enqueueChange", batch |-> b,
                                      nested |-> FALSE])
           /\ IF Len(q) = 1
              THEN LET d == nDrains + 1
                       r == runPendingChanges(stack, q, RunFrame("enqueueChange", c, d),
                                              Append(log, Ev("call", c, d)))
                   IN  /\ currentWriter' = r.cw
                       /\ stack' = r.stack
                       /\ log' = r.log
                       /\ nDrains' = d
                       /\ UNCHANGED returned
              ELSE /\ log' = log \o <<Ev("call", c, 0), Ev("return", c, 0)>>
                   /\ returned' = [call |-> c, value |-> 0]
                   /\ UNCHANGED <<currentWriter, stack, nDrains>>
    /\ UNCHANGED <<nBatches, world, clients, view, engine, converter>>

\* mutant of CallbackReturn: 'change' is not fired after a queued callback
CallbackReturn_NoChangeEvent ==
    /\ Len(stack) > 0
    /\ Top.k = "cb"
    /\ IF Top.from = "nested"
       THEN /\ stack' = SubSeq(stack, 1, Len(stack) - 1)
            /\ returned' = [call |-> Top.id, value |-> Result(Top.id)]
            /\ log' = log \o <<Ev("cbEnd", Top.id, 0), Ev("return", Top.id, 0)>>
       ELSE LET run == stack[Len(stack) - 1]
                run2 == [run EXCEPT !.ret = Append(@, Result(Top.id)), !.pc = "change"]
            IN  /\ stack' = SubSeq(stack, 1, Len(stack) - 2)
                                \o <<run2, ListenerFrame("change")>>
                /\ log' = Append(log, Ev("cbEnd", Top.id, run.d))
                /\ UNCHANGED returned
    /\ UNCHANGED <<pendingChanges, currentWriter, calls, nBatches, nDrains, world,
                 clients, view, engine, converter>>

(***************************************************************************)
(* The running callback returns.  A nested callback returns into change(), *)
(* which returns its value (model.js:51).  A queued callback returns into  *)
(* _runPendingChanges, which keeps the value and fires 'change'            *)
(* (model.js:75-77).                                                       *)
\* mutant of CallbackReturn: the change is taken off the queue and the current
\* writer reset before 'change' is fired
CallbackReturn_ShiftsFirst ==
    /\ Len(stack) > 0
    /\ Top.k = "cb"
    /\ IF Top.from = "nested"
       THEN /\ stack' = SubSeq(stack, 1, Len(stack) - 1)
            /\ returned' = [call |-> Top.id, value |-> Result(Top.id)]
            /\ log' = log \o <<Ev("cbEnd", Top.id, 0), Ev("return", Top.id, 0)>>
       ELSE LET run == stack[Len(stack) - 1]
                run2 == [run EXCEPT !.ret = Append(@, Result(Top.id)), !.pc = "change"]
            IN  /\ stack' = SubSeq(stack, 1, Len(stack) - 2)
                                \o <<run2, ListenerFrame("change")>>
                /\ log' = log \o <<Ev("cbEnd", Top.id, run.d), Ev("change", Top.id, run.d)>>
                /\ UNCHANGED returned
    /\ IF Top.from = "nested"
       THEN UNCHANGED <<pendingChanges, currentWriter>>
       ELSE pendingChanges' = Tail(pendingChanges) /\ currentWriter' = Null
    /\ UNCHANGED <<calls, nBatches, nDrains, world, clients, view, engine, converter>>

(***************************************************************************)
CallbackReturn ==
    /\ Len(stack) > 0
    /\ Top.k = "cb"
    /\ IF Top.from = "nested"
       THEN /\ stack' = SubSeq(stack, 1, Len(stack) - 1)
            /\ returned' = [call |-> Top.id, value |-> Result(Top.id)]
            /\ log' = log \o <<Ev("cbEnd", Top.id, 0), Ev("return", Top.id, 0)>>
       ELSE LET run == stack[Len(stack) - 1]
                run2 == [run EXCEPT !.ret = Append(@, Result(Top.id)), !.pc = "change"]
            IN  /\ stack' = SubSeq(stack, 1, Len(stack) - 2)
                                \o <<run2, ListenerFrame("change")>>
                /\ log' = log \o <<Ev("cbEnd", Top.id, run.d), Ev("change", Top.id, run.d)>>
                /\ UNCHANGED returned
    /\ UNCHANGED <<pendingChanges, currentWriter, calls, nBatches, nDrains, world,
                 clients, view, engine, converter>>

(***************************************************************************)
(* The listeners of the event being fired return into the method that      *)
(* fired it, which runs on to its next call out or to its return.          *)
\* mutant of ListenerReturn: change() returns what the last callback of the
\* drain returned
ListenerReturn_ReturnsLast ==
    /\ Len(stack) > 1
    /\ Top.k = "listener"
    /\ LET run == stack[Len(stack) - 1]
           below == SubSeq(stack, 1, Len(stack) - 2)
       IN  CASE run.pc = "change" ->
                    \* model.js:79-82, then the loop test
                    LET q == Tail(pendingChanges)
                        r == runPendingChanges(below, q, run, log)
                    IN  /\ pendingChanges' = q
                        /\ currentWriter' = r.cw
                        /\ stack' = r.stack
                        /\ log' = r.log
                        /\ UNCHANGED returned
             [] run.pc = "changesDone" /\ run.from = "change" ->
                    \* model.js:86 and model.js:49
                    /\ stack' = below
                    /\ returned' = [call |-> run.id, value |-> run.ret[Len(run.ret)]]
                    /\ log' = Append(log, Ev("return", run.id, run.d))
                    /\ UNCHANGED <<pendingChanges, currentWriter>>
             [] run.pc = "changesDone" /\ run.from = "enqueueChange" ->
                    \* model.js:86 and model.js:65
                    /\ stack' = below \o <<[run EXCEPT !.pc = "changesDone2"],
                                           ListenerFrame("changesDone")>>
                    /\ log' = Append(log, Ev("changesDone", 0, run.d))
                    /\ UNCHANGED <<pendingChanges, currentWriter, returned>>
             [] run.pc = "changesDone2" ->
                    \* model.js:66-67
                    /\ stack' = below
                    /\ returned' = [call |-> run.id, value |-> 0]
                    /\ log' = Append(log, Ev("return", run.id, run.d))
                    /\ UNCHANGED <<pendingChanges, currentWriter>>
    /\ UNCHANGED <<calls, nBatches, nDrains, world,
                 clients, view, engine, converter>>

(***************************************************************************)
ListenerReturn ==
    /\ Len(stack) > 1
    /\ Top.k = "listener"
    /\ LET run == stack[Len(stack) - 1]
           below == SubSeq(stack, 1, Len(stack) - 2)
       IN  CASE run.pc = "change" ->
                    \* model.js:79-82, then the loop test
                    LET q == Tail(pendingChanges)
                        r == runPendingChanges(below, q, run, log)
                    IN  /\ pendingChanges' = q
                        /\ currentWriter' = r.cw
                        /\ stack' = r.stack
                        /\ log' = r.log
                        /\ UNCHANGED returned
             [] run.pc = "changesDone" /\ run.from = "change" ->
                    \* model.js:86 and model.js:49
                    /\ stack' = below
                    /\ returned' = [call |-> run.id, value |-> run.ret[1]]
                    /\ log' = Append(log, Ev("return", run.id, run.d))
                    /\ UNCHANGED <<pendingChanges, currentWriter>>
             [] run.pc = "changesDone" /\ run.from = "enqueueChange" ->
                    \* model.js:86 and model.js:65
                    /\ stack' = below \o <<[run EXCEPT !.pc = "changesDone2"],
                                           ListenerFrame("changesDone")>>
                    /\ log' = Append(log, Ev("changesDone", 0, run.d))
                    /\ UNCHANGED <<pendingChanges, currentWriter, returned>>
             [] run.pc = "changesDone2" ->
                    \* model.js:66-67
                    /\ stack' = below
                    /\ returned' = [call |-> run.id, value |-> 0]
                    /\ log' = Append(log, Ev("return", run.id, run.d))
                    /\ UNCHANGED <<pendingChanges, currentWriter>>
    /\ UNCHANGED <<calls, nBatches, nDrains, world,
                 clients, view, engine, converter>>

(***************************************************************************)
(* The running callback or listener throws.  Nothing in model.js catches:  *)
(* every activation of _runPendingChanges on the way is abandoned where it *)
(* stands.  The exception arrives in the nearest callback or listener      *)
(* further down the stack, which handles it or throws in its turn (another *)
(* step of this action); with no such frame it leaves the program's entry  *)
(* call.                                                                   *)
(***************************************************************************)
CatchFrame ==
    LET user == {i \in 1..(Len(stack) - 1) : stack[i].k \in {"cb", "listener"}}
    IN  IF user = {} THEN 0 ELSE CHOOSE i \in user : \A j \in user : j <= i

\* mutant of Throw: a queued callback that throws is taken off the queue and
\* the current writer is reset, as a finally clause would do
Throw_LeavesScope ==
    /\ Len(stack) > 0
    /\ stack' = SubSeq(stack, 1, CatchFrame)
    /\ log' = Append(log, Ev("throw", Top.id, CatchFrame))
    /\ IF Top.k = "cb" /\ Top.from = "queue"
       THEN pendingChanges' = Tail(pendingChanges) /\ currentWriter' = Null
       ELSE UNCHANGED <<pendingChanges, currentWriter>>
    /\ UNCHANGED <<calls, nBatches, nDrains, returned, world, clients, view, engine, converter>>

Throw ==
    /\ Len(stack) > 0
    /\ stack' = SubSeq(stack, 1, CatchFrame)
    /\ log' = Append(log, Ev("throw", Top.id, CatchFrame))
    /\ UNCHANGED <<pendingChanges, currentWriter, calls, nBatches, nDrains, returned,
                 world, clients, view, engine, converter>>

(***************************************************************************)
(* Writer._assertWriterUsageCorrectness, as evaluated at the start of a    *)
(* mutating method of writer w.                                            *)
(***************************************************************************)
assertWriterUsageCorrectness(w) == currentWriter = w


(***************************************************************************)
(* The document tree.  A container (root element, document fragment or     *)
(* element) owns an ordered sequence of entries; an entry is a child       *)
(* element or one character of text with the attributes of its text node.  *)
(* Offsets count entries, so a text node of n characters takes n offsets.  *)
(***************************************************************************)
\* the elements the program can hold, in the order they are constructed
ElementSeq == <<"e1", "e2", "e3", "e4", "e5", "e6", "e7">>

Elements == {ElementSeq[i] : i \in 1..Len(ElementSeq)}

\* the RootElements of the document: its main root and its graveyard
DocRoots == {"main", "graveyard"}

\* the containers: document roots, one DocumentFragment, elements
Conts == DocRoots \cup {"frag"} \cup Elements

Keys == {"k1", "k2"}

\* a key that is not set reads as null / undefined
NoVal == ""

NoAttrs == [k \in Keys |-> NoVal]

Ch(c, a) == [k |-> "ch", v |-> c, a |-> a]

El(e) == [k |-> "el", v |-> e, a |-> NoAttrs]

\* operation.baseVersion of an operation that is not a document operation
NullVersion == -1

NoPos == [root |-> "none", path |-> <<>>]

NoRange == [start |-> NoPos, end |-> NoPos]

Pos(root, path) == [root |-> root, path |-> path]

Rng(s, e) == [start |-> s, end |-> e]

InsertAt(seq, off, nodes) ==
    SubSeq(seq, 1, off) \o nodes \o SubSeq(seq, off + 1, Len(seq))

RemoveAt(seq, off, n) ==
    SubSeq(seq, 1, off) \o SubSeq(seq, off + n + 1, Len(seq))

Front(p) == SubSeq(p, 1, Len(p) - 1)

Last(p) == p[Len(p)]

HasChild(ch, c, e) == \E i \in 1..Len(ch[c]) : ch[c][i].k = "el" /\ ch[c][i].v = e

\* node.parent ("none" for null)
ParentOf(ch, e) ==
    IF \E c \in Conts : HasChild(ch, c, e)
    THEN CHOOSE c \in Conts : HasChild(ch, c, e)
    ELSE "none"

\* node.startOffset
IndexOf(ch, e) ==
    LET c == ParentOf(ch, e)
    IN  (CHOOSE i \in 1..Len(ch[c]) : ch[c][i].k = "el" /\ ch[c][i].v = e) - 1

RECURSIVE RootOf(_, _)
\* node.root
RootOf(ch, c) ==
    IF c \notin Elements \/ ParentOf(ch, c) = "none"
    THEN c
    ELSE RootOf(ch, ParentOf(ch, c))

RECURSIVE PathOf(_, _)
\* node.getPath()
PathOf(ch, c) ==
    IF c \notin Elements \/ ParentOf(ch, c) = "none"
    THEN <<>>
    ELSE PathOf(ch, ParentOf(ch, c)) \o <<IndexOf(ch, c)>>

\* root.document is set
InDocument(root) == root \in DocRoots

RECURSIVE NodeAtPath(_, _, _)
\* the container a path of child offsets leads to from c ("none": no such node)
NodeAtPath(ch, c, p) ==
    IF Len(p) = 0
    THEN c
    ELSE IF c \in Conts /\ p[1] + 1 \in 1..Len(ch[c]) /\ ch[c][p[1] + 1].k = "el"
         THEN NodeAtPath(ch, ch[c][p[1] + 1].v, Tail(p))
         ELSE "none"

\* position.parent
PosParent(ch, pos) ==
    IF pos.root \notin Conts \/ Len(pos.path) = 0
    THEN "none"
    ELSE NodeAtPath(ch, pos.root, Front(pos.path))

\* position.offset
PosOffset(pos) == Last(pos.path)

\* the position names a place that exists, under a root that is a root
ValidPos(ch, pos) ==
    /\ PosParent(ch, pos) # "none"
    /\ pos.root \in Elements => ParentOf(ch, pos.root) = "none"
    /\ PosOffset(pos) \in 0..Len(ch[PosParent(ch, pos)])

\* Position.createFromParentAndOffset
createFromParentAndOffset(ch, c, off) == Pos(RootOf(ch, c), PathOf(ch, c) \o <<off>>)

\* Position.createBefore( element )
createBefore(ch, e) == createFromParentAndOffset(ch, ParentOf(ch, e), IndexOf(ch, e))

\* Position.createAfter( element )
createAfter(ch, e) == createFromParentAndOffset(ch, ParentOf(ch, e), IndexOf(ch, e) + 1)

\* position.getShiftedBy
ShiftedBy(pos, n) == Pos(pos.root, Front(pos.path) \o <<Last(pos.path) + n>>)

\* the entry right after / right before the position (k = "none": no node)
NoEntry == [k |-> "none", v |-> "", a |-> NoAttrs]

EntryAfter(ch, pos) ==
    LET c == PosParent(ch, pos)
        i == PosOffset(pos) + 1
    IN  IF c # "none" /\ i \in 1..Len(ch[c]) THEN ch[c][i] ELSE NoEntry

EntryBefore(ch, pos) ==
    LET c == PosParent(ch, pos)
        i == PosOffset(pos)
    IN  IF c # "none" /\ i \in 1..Len(ch[c]) THEN ch[c][i] ELSE NoEntry

\* range.isFlat
isFlat(range) == Front(range.start.path) = Front(range.end.path)

RECURSIVE PathLess(_, _)
\* compareArrays: p comes before q in tree order (a proper prefix comes first)
PathLess(p, q) ==
    IF Len(q) = 0 THEN FALSE
    ELSE IF Len(p) = 0 THEN TRUE
    ELSE IF p[1] # q[1] THEN p[1] < q[1]
    ELSE PathLess(Tail(p), Tail(q))

IsPrefix(p, q) == Len(p) <= Len(q) /\ SubSeq(q, 1, Len(p)) = p

RECURSIVE IsAncestorOrSelf(_, _, _)
\* container a is c or an ancestor of c
IsAncestorOrSelf(ch, a, c) ==
    IF a = c THEN TRUE
    ELSE IF c \notin Elements \/ ParentOf(ch, c) = "none" THEN FALSE
    ELSE IsAncestorOrSelf(ch, a, ParentOf(ch, c))

(***************************************************************************)
(* Positions under a change of the tree.                                   *)
(***************************************************************************)
SetLast(p, v) == Front(p) \o <<v>>

\* position._getTransformedByInsertion( insertPosition, howMany, insertBefore )
getTransformedByInsertion(pos, ins, howMany, insertBefore) ==
    IF pos.root # ins.root THEN pos
    ELSE IF Front(ins.path) = Front(pos.path)
    THEN IF \/ Last(ins.path) < Last(pos.path)
            \/ (Last(ins.path) = Last(pos.path) /\ insertBefore)
         THEN Pos(pos.root, SetLast(pos.path, Last(pos.path) + howMany))
         ELSE pos
    ELSE IF IsPrefix(Front(ins.path), Front(pos.path))
    THEN IF Last(ins.path) <= pos.path[Len(ins.path)]
         THEN Pos(pos.root, [pos.path EXCEPT ![Len(ins.path)] = @ + howMany])
         ELSE pos
    ELSE pos

\* position._getTransformedByDeletion( deletePosition, howMany ); NoPos for null
getTransformedByDeletion(pos, del, howMany) ==
    IF pos.root # del.root THEN pos
    ELSE IF Front(del.path) = Front(pos.path)
    THEN IF Last(del.path) < Last(pos.path)
         THEN IF Last(del.path) + howMany > Last(pos.path)
              THEN NoPos
              ELSE Pos(pos.root, SetLast(pos.path, Last(pos.path) - howMany))
         ELSE pos
    ELSE IF IsPrefix(Front(del.path), Front(pos.path))
    THEN IF Last(del.path) <= pos.path[Len(del.path)]
         THEN IF Last(del.path) + howMany > pos.path[Len(del.path)]
              THEN NoPos
              ELSE Pos(pos.root, [pos.path EXCEPT ![Len(del.path)] = @ - howMany])
         ELSE pos
    ELSE pos

\* position._getCombined( source, target )
getCombined(pos, source, target) ==
    LET i == Len(source.path)
    IN  Pos(target.root,
            SetLast(target.path, Last(target.path) + pos.path[i] - Last(source.path))
                \o SubSeq(pos.path, i + 1, Len(pos.path)))

\* position._getTransformedByMove( sourcePosition, targetPosition, howMany,
\*                                 insertBefore, sticky )
getTransformedByMove(pos, source, target, howMany, insertBefore, sticky) ==
    LET transformed == getTransformedByDeletion(pos, source, howMany)
        target2 == getTransformedByDeletion(target, source, howMany)
    IN  IF transformed = NoPos \/ (sticky /\ transformed = source)
        THEN getCombined(pos, source, target2)
        ELSE getTransformedByInsertion(transformed, target2, howMany, insertBefore)

RECURSIVE Walk(_, _, _)
\* the items a TreeWalker with ignoreElementEnd yields from pos up to end, each
\* with the positions before and after it; text is yielded character by
\* character
Walk(ch, pos0, end) ==
    Bind(pos0, LAMBDA pos : (
        IF pos = end \/ PosParent(ch, pos) = "none"
        THEN <<>>
        ELSE LET c == PosParent(ch, pos)
                 off == PosOffset(pos)
             IN  IF off < Len(ch[c])
                 THEN LET n == ch[c][off + 1]
                          next == IF n.k = "el"
                                  THEN Pos(pos.root, pos.path \o <<0>>)
                                  ELSE ShiftedBy(pos, 1)
                      IN  <<[k |-> n.k, v |-> n.v, prev |-> pos, next |-> next]>>
                              \o Walk(ch, next, end)
                 ELSE IF Len(pos.path) = 1
                      THEN <<>>
                      ELSE Walk(ch, ShiftedBy(Pos(pos.root, Front(pos.path)), 1), end)))

(***************************************************************************)
(* The state the Writer works on, as one record W:                         *)
(*   children, name, attrs, created  the trees                             *)
(*   markers                         Model.markers (name -> range)         *)
(*   version                         Document.version                      *)
(*   deltas                          the deltas of the writer's batch      *)
(*   applied                         the operations applied, in order      *)
(*   error                           the error the running method threw    *)
(***************************************************************************)
MarkerNames == {"m1", "m2"}

Fail(W0, err) ==
    Bind(W0, LAMBDA W : (
        IF W.error = "none" THEN [W EXCEPT !.error = err] ELSE W))

\* item.getAttribute( key ) of a walked item
ItemAttribute(W, it, key) ==
    IF it.k = "el"
    THEN W.attrs[it.v][key]
    ELSE W.children[PosParent(W.children, it.prev)][PosOffset(it.prev) + 1].a[key]

(***************************************************************************)
(* Operations.                                                             *)
(***************************************************************************)
BlankOp ==
    [type |-> "", pos |-> NoPos, howMany |-> 0, target |-> NoPos, nodes |-> <<>>,
     from |-> "", key |-> "", old |-> "", new |-> "", name |-> "", range |-> NoRange,
     oldRange |-> NoRange, newRange |-> NoRange, root |-> "", sticky |-> FALSE,
     baseVersion |-> NullVersion]

\* new InsertOperation( position, nodes, baseVersion ); `from` names the
\* DocumentFragment whose children the nodes are, if any
InsertOperation(pos, nodes, from, v) ==
    [BlankOp EXCEPT !.type = "insert", !.pos = pos, !.nodes = nodes, !.from = from,
                    !.baseVersion = v]

\* new MoveOperation( sourcePosition, howMany, targetPosition, baseVersion )
MoveOperation(pos, howMany, target, v) ==
    [BlankOp EXCEPT !.type = "move", !.pos = pos, !.howMany = howMany,
                    !.target = target, !.baseVersion = v]

\* new RemoveOperation( position, howMany, graveyardPosition, baseVersion )
RemoveOperation(pos, howMany, target, v) ==
    [BlankOp EXCEPT !.type = "remove", !.pos = pos, !.howMany = howMany,
                    !.target = target, !.baseVersion = v]

\* new DetachOperation( position, howMany )
DetachOperation(pos, howMany) ==
    [BlankOp EXCEPT !.type = "detach", !.pos = pos, !.howMany = howMany]

\* new RenameOperation( position, oldName, newName, baseVersion )
RenameOperation(pos, old, new, v) ==
    [BlankOp EXCEPT !.type = "rename", !.pos = pos, !.old = old, !.new = new,
                    !.baseVersion = v]

\* new AttributeOperation( range, key, oldValue, newValue, baseVersion )
AttributeOperation(range, key, old, new, v) ==
    [BlankOp EXCEPT !.type = "attribute", !.range = range, !.key = key, !.old = old,
                    !.new = new, !.baseVersion = v]

\* new RootAttributeOperation( root, key, oldValue, newValue, baseVersion )
RootAttributeOperation(root, key, old, new, v) ==
    [BlankOp EXCEPT !.type = "rootAttribute", !.root = root, !.key = key, !.old = old,
                    !.new = new, !.baseVersion = v]

\* new MarkerOperation( name, oldRange, newRange, markers, baseVersion )
MarkerOperation(name, oldRange, newRange, v) ==
    [BlankOp EXCEPT !.type = "marker", !.name = name, !.oldRange = oldRange,
                    !.newRange = newRange, !.baseVersion = v]

\* the root of the content an operation works on ("" for a marker operation)
OpRoot(op) ==
    CASE op.type \in {"insert", "move", "remove", "detach", "rename"} -> op.pos.root
      [] op.type = "attribute" -> op.range.start.root
      [] op.type = "rootAttribute" -> op.root
      [] OTHER -> ""

\* the graveyard position removed nodes are moved to
GraveyardPosition == Pos("graveyard", <<0>>)

\* InsertOperation._execute; a node that has a parent leaves it: the nodes of
\* a DocumentFragment leave the fragment, an element leaves the parent it has
executeInsert(W, op) ==
    LET ch == W.children
        c == PosParent(ch, op.pos)
        els == {op.nodes[i].v : i \in {j \in 1..Len(op.nodes) : op.nodes[j].k = "el"}}
        ch1 == [d \in DOMAIN ch |->
                   IF d = op.from THEN <<>>
                   ELSE SelectSeq(ch[d], LAMBDA n : ~(n.k = "el" /\ n.v \in els))]
    IN  [W EXCEPT !.children =
            [ch1 EXCEPT ![c] = InsertAt(@, PosOffset(op.pos), op.nodes)]]

\* MoveOperation._execute (RemoveOperation: the target is the graveyard)
executeMove(W, op) ==
    LET ch == W.children
        src == PosParent(ch, op.pos)
        so == PosOffset(op.pos)
        i == Len(op.pos.path)
    IN  IF ~ValidPos(ch, op.pos) \/ ~ValidPos(ch, op.target)
        THEN Fail(W, "move-operation-position-invalid")
        ELSE IF so + op.howMany > Len(ch[src])
        THEN Fail(W, "move-operation-nodes-do-not-exist")
        ELSE IF /\ src = PosParent(ch, op.target)
                /\ so < PosOffset(op.target)
                /\ PosOffset(op.target) < so + op.howMany
        THEN Fail(W, "move-operation-range-into-itself")
        ELSE IF /\ op.pos.root = op.target.root
                /\ Front(op.pos.path) # Front(op.target.path)
                /\ IsPrefix(Front(op.pos.path), Front(op.target.path))
                /\ op.target.path[i] >= so
                /\ op.target.path[i] < so + op.howMany
        THEN Fail(W, "move-operation-node-into-itself")
        ELSE LET nodes == SubSeq(ch[src], so + 1, so + op.howMany)
                 ch1 == [ch EXCEPT ![src] = RemoveAt(@, so, op.howMany)]
                 t2 == getTransformedByDeletion(op.target, op.pos, op.howMany)
                 tc == PosParent(ch1, t2)
             IN  [W EXCEPT !.children =
                      [ch1 EXCEPT ![tc] = InsertAt(@, PosOffset(t2), nodes)]]

\* DetachOperation._execute
executeDetach(W, op) ==
    LET ch == W.children
        src == PosParent(ch, op.pos)
        so == PosOffset(op.pos)
    IN  IF InDocument(op.pos.root)
        THEN Fail(W, "detach-operation-on-document-node")
        ELSE IF ~ValidPos(ch, op.pos) \/ so + op.howMany > Len(ch[src])
        THEN Fail(W, "detach-operation-nodes-do-not-exist")
        ELSE [W EXCEPT !.children = [ch EXCEPT ![src] = RemoveAt(@, so, op.howMany)]]

\* RenameOperation._execute
executeRename(W, op) ==
    LET e == EntryAfter(W.children, op.pos)
    IN  IF e.k # "el"
        THEN Fail(W, "rename-operation-wrong-position")
        ELSE IF W.name[e.v] # op.old
        THEN Fail(W, "rename-operation-wrong-name")
        ELSE [W EXCEPT !.name[e.v] = op.new]

\* AttributeOperation._execute
executeAttribute(W, op) ==
    Bind(Walk(W.children, op.range.start, op.range.end), LAMBDA items : (
        LET ch == W.children
            idx == 1..Len(items)
            els == {items[i].v : i \in {j \in idx : items[j].k = "el"}}
            chars == {<<PosParent(ch, items[i].prev), PosOffset(items[i].prev) + 1>> :
                          i \in {j \in idx : items[j].k = "ch"}}
        IN  IF \E i \in idx : op.old # NoVal /\ ItemAttribute(W, items[i], op.key) # op.old
            THEN Fail(W, "attribute-operation-wrong-old-value")
            ELSE IF \E i \in idx : /\ op.old = NoVal
                                   /\ op.new # NoVal
                                   /\ ItemAttribute(W, items[i], op.key) # NoVal
            THEN Fail(W, "attribute-operation-attribute-exists")
            ELSE Bind2(els, chars, LAMBDA es, cs : (
                     [W EXCEPT
                         !.children = [c \in Conts |->
                             [i \in 1..Len(ch[c]) |->
                                 IF <<c, i>> \in cs
                                 THEN [ch[c][i] EXCEPT !.a[op.key] = op.new]
                                 ELSE ch[c][i]]],
                         !.attrs = [e \in DOMAIN W.attrs |->
                             IF e \in es THEN [W.attrs[e] EXCEPT ![op.key] = op.new]
                             ELSE W.attrs[e]]]))))

\* RootAttributeOperation._execute
executeRootAttribute(W, op) ==
    IF W.attrs[op.root][op.key] # op.old
    THEN Fail(W, "rootattribute-operation-wrong-old-value")
    ELSE [W EXCEPT !.attrs[op.root][op.key] = op.new]

\* MarkerOperation._execute
executeMarker(W, op) == [W EXCEPT !.markers[op.name] = op.newRange]

\* operation._execute()
execute(W, op) ==
    CASE op.type = "insert" -> executeInsert(W, op)
      [] op.type \in {"move", "remove"} -> executeMove(W, op)
      [] op.type = "detach" -> executeDetach(W, op)
      [] op.type = "rename" -> executeRename(W, op)
      [] op.type = "attribute" -> executeAttribute(W, op)
      [] op.type = "rootAttribute" -> executeRootAttribute(W, op)
      [] op.type = "marker" -> executeMarker(W, op)

\* a marker's live range after an operation on the tree
RebaseRange(r, op) ==
    IF r = NoRange THEN r
    ELSE LET collapsed == r.start = r.end
             s2 == CASE op.type = "insert" ->
                           getTransformedByInsertion(r.start, op.pos, Len(op.nodes), TRUE)
                     [] op.type \in {"move", "remove"} ->
                           getTransformedByMove(r.start, op.pos, op.target, op.howMany,
                                                TRUE, FALSE)
                     [] op.type = "detach" ->
                           LET p == getTransformedByDeletion(r.start, op.pos, op.howMany)
                           IN  IF p = NoPos THEN op.pos ELSE p
                     [] OTHER -> r.start
             e2 == CASE op.type = "insert" ->
                           getTransformedByInsertion(r.end, op.pos, Len(op.nodes), collapsed)
                     [] op.type \in {"move", "remove"} ->
                           getTransformedByMove(r.end, op.pos, op.target, op.howMany,
                                                collapsed, FALSE)
                     [] op.type = "detach" ->
                           LET p == getTransformedByDeletion(r.end, op.pos, op.howMany)
                           IN  IF p = NoPos THEN op.pos ELSE p
                     [] OTHER -> r.end
         IN  IF s2.root # e2.root \/ PathLess(e2.path, s2.path)
             THEN Rng(s2, s2)
             ELSE Rng(s2, e2)

(***************************************************************************)
(* Document: what the document does around the execution of an operation. *)
(* A versioned operation must be based on the current version; every       *)
(* applied operation advances the version by one; markers follow the tree. *)
(***************************************************************************)
documentApply(W0, op) ==
    Bind(W0, LAMBDA W : (
        IF W.error # "none" THEN W
        ELSE IF op.baseVersion # NullVersion /\ op.baseVersion # W.version
        THEN Fail(W, "model-document-applyOperation-wrong-version")
        ELSE Bind(execute(W, op), LAMBDA r : (
                 IF r.error # "none" THEN r
                 ELSE [r EXCEPT !.version = W.version + 1,
                                !.markers = [n \in MarkerNames |->
                                                 RebaseRange(r.markers[n], op)]]))))

\* mutant of applyOperation: the operation is taken but never executed
applyOperation_NotExecuted(W0, op0) ==
    Bind2(W0, op0, LAMBDA W, op : (
        IF W.error # "none" THEN W
        ELSE [W EXCEPT !.applied = Append(@, [op |-> op, at |-> W.version, ok |-> TRUE])]))

(***************************************************************************)
(* Model.applyOperation( operation ).  `applied` keeps each operation      *)
(* handed over, the document version at that instant and whether the       *)
(* operation was executed.                                                 *)
(***************************************************************************)
applyOperation(W0, op0) ==
    Bind2(W0, op0, LAMBDA W, op : (
        IF W.error # "none" THEN W
        ELSE Bind(documentApply(W, op), LAMBDA r : (
                 [r EXCEPT !.applied =
                      Append(W.applied,
                             [op |-> op, at |-> W.version, ok |-> r.error = "none"])]))))

(***************************************************************************)
(* Inversion.  The inverse of an operation, and the inverse of a sequence  *)
(* of deltas: their operations inverted, in reverse order.                 *)
(***************************************************************************)
\* whether an operation has an inverse: a DetachOperation has none
Reversible(op) == op.type # "detach"

\* operation.getReversed()
getReversed(op) ==
    LET next == IF op.baseVersion = NullVersion THEN NullVersion ELSE op.baseVersion + 1
    IN  CASE op.type = "insert" ->
                 IF InDocument(op.pos.root)
                 THEN RemoveOperation(op.pos, Len(op.nodes), GraveyardPosition, next)
                 ELSE DetachOperation(op.pos, Len(op.nodes))
          [] op.type \in {"move", "remove"} ->
                 [MoveOperation(getTransformedByDeletion(op.target, op.pos, op.howMany),
                                op.howMany,
                                getTransformedByInsertion(op.pos, op.target, op.howMany,
                                                          FALSE),
                                next)
                     EXCEPT !.sticky = op.sticky]
          [] op.type = "rename" -> RenameOperation(op.pos, op.new, op.old, next)
          [] op.type = "attribute" ->
                 AttributeOperation(op.range, op.key, op.new, op.old, next)
          [] op.type = "rootAttribute" ->
                 RootAttributeOperation(op.root, op.key, op.new, op.old, next)
          [] op.type = "marker" -> MarkerOperation(op.name, op.newRange, op.oldRange, next)
          [] OTHER -> op

\* the operations of a sequence of deltas, in order
RECURSIVE OperationsOf(_)
OperationsOf(deltas) ==
    IF deltas = <<>> THEN <<>>
    ELSE deltas[1].operations \o OperationsOf(Tail(deltas))

\* the inverses of the first i operations applied, the last operation's first,
\* each based on the document version it finds
RECURSIVE applyReversed(_, _, _)
applyReversed(W0, ops, i) ==
    Bind(W0, LAMBDA W : (
        IF i = 0 THEN W
        ELSE LET rev == getReversed(ops[i])
                 based == [rev EXCEPT !.baseVersion =
                              IF rev.baseVersion = NullVersion THEN NullVersion
                              ELSE W.version]
             IN  applyReversed(applyOperation(W, based), ops, i - 1)))

\* the tree under a root: its nodes with their children, names and attributes
TreeOf(W, root) ==
    [c \in {d \in Conts : RootOf(W.children, d) = root} |->
        [children |-> W.children[c],
         name |-> IF c \in Elements THEN W.name[c] ELSE "",
         attrs |-> W.attrs[c]]]

(***************************************************************************)
(* The Writer.  Each method is an operator from the state before the call  *)
(* to the state after it; `error` holds the error the call threw, and a    *)
(* step made after a throw leaves the state alone.                         *)
(***************************************************************************)
Detached == "writer-detached-writer-tries-to-modify-model"

\* the writer whose methods are called
TheWriter == WriterObj(1)

\* batch.addDelta( delta )
addDelta(W0, type) ==
    Bind(W0, LAMBDA W : (
        IF W.error # "none" THEN W
        ELSE [W EXCEPT !.deltas = Append(@, [type |-> type, operations |-> <<>>])]))

\* delta.addOperation( operation ), on the delta added last
addOperation(W0, op0) ==
    Bind2(W0, op0, LAMBDA W, op : (
        IF W.error # "none" THEN W
        ELSE [W EXCEPT !.deltas[Len(W.deltas)].operations = Append(@, op)]))

\* range.root.document ? doc.version : null
versionFor(W, root) == IF InDocument(root) THEN W.version ELSE NullVersion

\* mutant of isSameTree: only one and the same root makes a tree
isSameTree_SameRootOnly(rootA, rootB) == rootA = rootB

\* isSameTree( rootA, rootB )
isSameTree(rootA, rootB) ==
    \/ rootA = rootB
    \/ rootA \in DocRoots /\ rootB \in DocRoots

\* node.maxOffset
maxOffset(ch, c) == Len(ch[c])

\* the length of the common path of two positions
RECURSIVE CommonLen(_, _)
CommonLen(p, q) ==
    IF Len(p) = 0 \/ Len(q) = 0 \/ p[1] # q[1] THEN 0
    ELSE 1 + CommonLen(Tail(p), Tail(q))

RECURSIVE GoDown(_, _)
\* range.getMinimalFlatRanges(): the second loop
GoDown(pos0, end) ==
    Bind(pos0, LAMBDA pos : (
        IF Len(pos.path) > Len(end.path) THEN <<>>
        ELSE LET offset == end.path[Len(pos.path)]
                 howMany == offset - PosOffset(pos)
                 here == IF howMany # 0 THEN <<Rng(pos, ShiftedBy(pos, howMany))>> ELSE <<>>
             IN  here \o GoDown(Pos(pos.root, SetLast(pos.path, offset) \o <<0>>), end)))

RECURSIVE GoUp(_, _, _, _)
\* range.getMinimalFlatRanges(): the first loop, then the second
GoUp(ch, pos0, end, diffAt) ==
    Bind(pos0, LAMBDA pos : (
        IF Len(pos.path) > diffAt + 1
        THEN LET howMany == maxOffset(ch, PosParent(ch, pos)) - PosOffset(pos)
                 here == IF howMany # 0 THEN <<Rng(pos, ShiftedBy(pos, howMany))>> ELSE <<>>
             IN  here \o GoUp(ch, ShiftedBy(Pos(pos.root, Front(pos.path)), 1), end, diffAt)
        ELSE GoDown(pos, end)))

\* range.getMinimalFlatRanges()
getMinimalFlatRanges(ch, range) ==
    GoUp(ch, range.start, range.end, CommonLen(range.start.path, range.end.path))

Reverse(seq0) ==
    Bind(seq0, LAMBDA seq : (
        [i \in 1..Len(seq) |-> seq[Len(seq) + 1 - i]]))

\* mutant of addRemoveOperation: the operation is applied but not added to
\* the delta
addRemoveOperation_NotInDelta(W0, position0, howMany) ==
    Bind2(W0, position0, LAMBDA W, position : (
        IF W.error # "none" THEN W
        ELSE LET operation ==
                     IF InDocument(position.root)
                     THEN RemoveOperation(position, howMany, GraveyardPosition, W.version)
                     ELSE DetachOperation(position, howMany)
             IN  applyOperation(W, operation)))

\* addRemoveOperation( position, howMany, delta, model )
addRemoveOperation(W0, position0, howMany) ==
    Bind2(W0, position0, LAMBDA W, position : (
        IF W.error # "none" THEN W
        ELSE LET operation ==
                     IF InDocument(position.root)
                     THEN RemoveOperation(position, howMany, GraveyardPosition, W.version)
                     ELSE DetachOperation(position, howMany)
             IN  applyOperation(addOperation(W, operation), operation)))

\* addMarkerOperation( writer, name, oldRange, newRange )
addMarkerOperation(W0, name, oldRange, newRange) ==
    Bind(W0, LAMBDA W : (
        IF W.error # "none" THEN W
        ELSE LET operation == MarkerOperation(name, oldRange, newRange, W.version)
             IN  applyOperation(addOperation(addDelta(W, "marker"), operation), operation)))

\* mutant of setAttributeOnItem: the operation is applied also when the item
\* holds the value already
setAttributeOnItem_Always(W0, key, value, item) ==
    Bind(W0, LAMBDA W : (
        IF W.error # "none" THEN W
        ELSE LET ch == W.children
                 previousValue == W.attrs[item][key]
                 isRootChanged == RootOf(ch, item) = item
                 operation ==
                     IF isRootChanged
                     THEN RootAttributeOperation(item, key, previousValue, value,
                                                 versionFor(W, item))
                     ELSE AttributeOperation(
                              Rng(createBefore(ch, item), createFromParentAndOffset(ch, item, 0)),
                              key, previousValue, value, versionFor(W, RootOf(ch, item)))
             IN  IF FALSE THEN W
                 ELSE applyOperation(
                          addOperation(
                              addDelta(W, IF isRootChanged THEN "rootattribute" ELSE "attribute"),
                              operation),
                          operation)))

\* setAttributeOnItem( writer, key, value, item ), item an element or a root
setAttributeOnItem(W0, key, value, item) ==
    Bind(W0, LAMBDA W : (
        IF W.error # "none" THEN W
        ELSE LET ch == W.children
                 previousValue == W.attrs[item][key]
                 isRootChanged == RootOf(ch, item) = item
                 operation ==
                     IF isRootChanged
                     THEN RootAttributeOperation(item, key, previousValue, value,
                                                 versionFor(W, item))
                     ELSE AttributeOperation(
                              Rng(createBefore(ch, item), createFromParentAndOffset(ch, item, 0)),
                              key, previousValue, value, versionFor(W, RootOf(ch, item)))
             IN  IF previousValue = value THEN W
                 ELSE applyOperation(
                          addOperation(
                              addDelta(W, IF isRootChanged THEN "rootattribute" ELSE "attribute"),
                              operation),
                          operation)))

\* setAttributeOnRange: addOperation(); n counts the operations of the delta
addAttributeOperation(W0, n, lastSplitPosition, position, key, valueBefore, value) ==
    Bind(W0, LAMBDA W : (
        LET W1 == IF n = 0 THEN addDelta(W, "attribute") ELSE W
            range == Rng(lastSplitPosition, position)
            operation == AttributeOperation(range, key, valueBefore, value,
                                            versionFor(W, range.start.root))
        IN  applyOperation(addOperation(W1, operation), operation)))

RECURSIVE setAttributeLoop_NoSkip(_, _, _, _, _, _)
\* mutant of setAttributeLoop: an operation is added at every split, also
\* for items that hold the value already
setAttributeLoop_NoSkip(W0, items, i, st0, key, value) ==
    Bind2(W0, st0, LAMBDA W, st : (
        IF W.error # "none" THEN W
        ELSE IF i > Len(items)
        THEN IF st.position # NoPos /\ st.valueBefore # value
             THEN addAttributeOperation(W, st.n, st.lastSplitPosition, st.position, key,
                                        st.valueBefore, value)
             ELSE W
        ELSE LET valueAfter == ItemAttribute(W, items[i], key)
                 split == st.position # NoPos /\ st.valueBefore # valueAfter
                 add == split
                 W1 == IF add
                       THEN addAttributeOperation(W, st.n, st.lastSplitPosition, st.position,
                                                  key, st.valueBefore, value)
                       ELSE W
             IN  setAttributeLoop_NoSkip(
                     W1, items, i + 1,
                     [n |-> IF add THEN st.n + 1 ELSE st.n,
                      lastSplitPosition |-> IF split THEN st.position
                                            ELSE st.lastSplitPosition,
                      position |-> items[i].next,
                      valueBefore |-> valueAfter],
                     key, value)))

RECURSIVE setAttributeLoop(_, _, _, _, _, _)
\* setAttributeOnRange: the loop over the items of the range from item i on,
\* and the check after it; st holds the loop's variables and the number n of
\* operations the delta has
setAttributeLoop(W0, items, i, st0, key, value) ==
    Bind2(W0, st0, LAMBDA W, st : (
        IF W.error # "none" THEN W
        ELSE IF i > Len(items)
        THEN IF st.position # NoPos /\ st.valueBefore # value
             THEN addAttributeOperation(W, st.n, st.lastSplitPosition, st.position, key,
                                        st.valueBefore, value)
             ELSE W
        ELSE LET valueAfter == ItemAttribute(W, items[i], key)
                 split == st.position # NoPos /\ st.valueBefore # valueAfter
                 add == split /\ st.valueBefore # value
                 W1 == IF add
                       THEN addAttributeOperation(W, st.n, st.lastSplitPosition, st.position,
                                                  key, st.valueBefore, value)
                       ELSE W
             IN  setAttributeLoop(
                     W1, items, i + 1,
                     [n |-> IF add THEN st.n + 1 ELSE st.n,
                      lastSplitPosition |-> IF split THEN st.position
                                            ELSE st.lastSplitPosition,
                      position |-> items[i].next,
                      valueBefore |-> valueAfter],
                     key, value)))

\* setAttributeOnRange( writer, key, value, range )
setAttributeOnRange(W0, key, value, range) ==
    Bind2(W0, Walk(W0.children, range.start, range.end), LAMBDA W, items : (
        setAttributeLoop(W, items, 1,
                         [n |-> 0, lastSplitPosition |-> range.start, position |-> NoPos,
                          valueBefore |-> NoVal],
                         key, value)))

\* Range.createOn( item ) for an element
createOn(ch, e) == Rng(createBefore(ch, e), createAfter(ch, e))

\* the element a call constructs with new Element( ... )
NewElement(W) == ElementSeq[W.created + 1]

CanCreate(W) == W.created < Len(ElementSeq)

\* new Element( name, attributes )
createElement(W0, name, attributes) ==
    Bind(W0, LAMBDA W : (
        [W EXCEPT !.created = @ + 1,
                  !.name[NewElement(W)] = name,
                  !.attrs[NewElement(W)] = attributes]))

\* mutant of moveChecked: the range is not checked to be flat
moveChecked_FlatNotChecked(W0, range, position) ==
    Bind(W0, LAMBDA W : (
        IF range = NoRange
        THEN Fail(W, "writer-move-invalid-range")
        ELSE IF ~isSameTree(range.start.root, position.root)
        THEN Fail(W, "writer-move-different-document")
        ELSE LET W1 == addDelta(W, "move")
                 operation == MoveOperation(range.start,
                                            PosOffset(range.end) - PosOffset(range.start),
                                            position, versionFor(W, range.start.root))
             IN  applyOperation(addOperation(W1, operation), operation)))

\* writer.move( range, itemOrPosition ); NoRange is an argument that is not
\* a Range
moveChecked(W0, range, position) ==
    Bind(W0, LAMBDA W : (
        IF range = NoRange
        THEN Fail(W, "writer-move-invalid-range")
        ELSE IF ~isFlat(range)
        THEN Fail(W, "writer-move-range-not-flat")
        ELSE IF ~isSameTree(range.start.root, position.root)
        THEN Fail(W, "writer-move-different-document")
        ELSE LET W1 == addDelta(W, "move")
                 operation == MoveOperation(range.start,
                                            PosOffset(range.end) - PosOffset(range.start),
                                            position, versionFor(W, range.start.root))
             IN  applyOperation(addOperation(W1, operation), operation)))

move(W0, range, position) ==
    Bind(W0, LAMBDA W : (
        IF W.error # "none" THEN W
        ELSE IF ~assertWriterUsageCorrectness(TheWriter) THEN Fail(W, Detached)
        ELSE moveChecked(W, range, position)))

\* writer.remove(): addRemoveDelta( position, howMany )
addRemoveDelta(W0, position0, howMany) ==
    Bind2(W0, position0, LAMBDA W, position : (
        addRemoveOperation(addDelta(W, "remove"), position, howMany)))

RECURSIVE removeRanges(_, _, _)
removeRanges(W0, ranges, i) ==
    Bind(W0, LAMBDA W : (
        IF i > Len(ranges) THEN W
        ELSE removeRanges(
                 addRemoveDelta(W, ranges[i].start,
                                PosOffset(ranges[i].end) - PosOffset(ranges[i].start)),
                 ranges, i + 1)))

\* mutant of removeRange: the flat ranges are removed from first to last
removeRange_FirstToLast(W0, range) ==
    Bind(W0, LAMBDA W : (
        IF W.error # "none" THEN W
        ELSE IF ~assertWriterUsageCorrectness(TheWriter) THEN Fail(W, Detached)
        ELSE Bind(getMinimalFlatRanges(W.children, range), LAMBDA ranges : (
                 removeRanges(W, ranges, 1)))))

\* writer.remove( range )
removeRange(W0, range) ==
    Bind(W0, LAMBDA W : (
        IF W.error # "none" THEN W
        ELSE IF ~assertWriterUsageCorrectness(TheWriter) THEN Fail(W, Detached)
        ELSE Bind(Reverse(getMinimalFlatRanges(W.children, range)), LAMBDA ranges : (
                 removeRanges(W, ranges, 1)))))

\* writer.remove( item ), item an element with a parent
removeItem(W0, e) ==
    Bind(W0, LAMBDA W : (
        IF W.error # "none" THEN W
        ELSE IF ~assertWriterUsageCorrectness(TheWriter) THEN Fail(W, Detached)
        ELSE addRemoveDelta(W, createBefore(W.children, e), 1)))

\* writer.remove( item ), item a text node, given as the range over it:
\* howMany is its offsetSize
removeText(W0, range) ==
    Bind(W0, LAMBDA W : (
        IF W.error # "none" THEN W
        ELSE IF ~assertWriterUsageCorrectness(TheWriter) THEN Fail(W, Detached)
        ELSE addRemoveDelta(W, range.start, PosOffset(range.end) - PosOffset(range.start))))

\* setMarker() that records the current range as the old range of a marker it
\* synchronizes
setMarker_SyncFromCurrent(W0, name, newRange) ==
    Bind(W0, LAMBDA W : (
        IF W.error # "none" THEN W
        ELSE IF ~assertWriterUsageCorrectness(TheWriter) THEN Fail(W, Detached)
        ELSE LET currentRange == W.markers[name]
             IN  IF newRange = NoRange /\ currentRange = NoRange
                 THEN Fail(W, "writer-setMarker-no-range")
                 ELSE IF newRange = NoRange
                 THEN addMarkerOperation(W, name, currentRange, currentRange)
                 ELSE addMarkerOperation(W, name, currentRange, newRange)))

\* writer.setMarker( markerOrName, newRange ); NoRange: no range given
setMarker(W0, name, newRange) ==
    Bind(W0, LAMBDA W : (
        IF W.error # "none" THEN W
        ELSE IF ~assertWriterUsageCorrectness(TheWriter) THEN Fail(W, Detached)
        ELSE LET currentRange == W.markers[name]
             IN  IF newRange = NoRange /\ currentRange = NoRange
                 THEN Fail(W, "writer-setMarker-no-range")
                 ELSE IF newRange = NoRange
                 THEN addMarkerOperation(W, name, NoRange, currentRange)
                 ELSE addMarkerOperation(W, name, currentRange, newRange)))

\* writer.removeMarker( markerOrName )
removeMarker(W0, name) ==
    Bind(W0, LAMBDA W : (
        IF W.error # "none" THEN W
        ELSE IF ~assertWriterUsageCorrectness(TheWriter) THEN Fail(W, Detached)
        ELSE IF W.markers[name] = NoRange
        THEN Fail(W, "writer-removeMarker-no-marker")
        ELSE addMarkerOperation(W, name, W.markers[name], NoRange)))

\* the order a Map of markers is iterated in
MarkerSeq == <<"m1", "m2">>

RECURSIVE insertMarkers_NotRebased(_, _, _)
\* mutant of insertMarkers: the markers are set to the ranges they have in the
\* fragment, taken over to the root of the position
insertMarkers_NotRebased(W0, position, i) ==
    Bind(W0, LAMBDA W : (
        IF i > Len(MarkerSeq) THEN W
        ELSE LET markerRange == W.fragMarkers[MarkerSeq[i]]
                 range == Rng(Pos(position.root, markerRange.start.path),
                              Pos(position.root, markerRange.end.path))
             IN  IF markerRange = NoRange
                 THEN insertMarkers_NotRebased(W, position, i + 1)
                 ELSE insertMarkers_NotRebased(setMarker(W, MarkerSeq[i], range), position,
                                               i + 1)))

RECURSIVE insertMarkers(_, _, _)
\* writer.insert(): the markers of an inserted DocumentFragment
insertMarkers(W0, position, i) ==
    Bind(W0, LAMBDA W : (
        IF i > Len(MarkerSeq) THEN W
        ELSE LET markerRange == W.fragMarkers[MarkerSeq[i]]
                 rangeRootPosition == Pos("frag", <<0>>)
                 range == Rng(getCombined(markerRange.start, rangeRootPosition, position),
                              getCombined(markerRange.end, rangeRootPosition, position))
             IN  IF markerRange = NoRange
                 THEN insertMarkers(W, position, i + 1)
                 ELSE insertMarkers(setMarker(W, MarkerSeq[i], range), position, i + 1)))

\* the nodes an InsertOperation gets for an item: a new Text node, an
\* element, or the children of the DocumentFragment
ItemNodes(W, item) ==
    CASE item.k = "text" -> <<Ch(item.v, item.a)>>
      [] item.k = "el" -> <<El(item.v)>>
      [] item.k = "frag" -> W.children["frag"]

\* writer.insert(): from the version on
insertNodes(W0, item, position) ==
    Bind(W0, LAMBDA W : (
        IF W.error # "none" THEN W
        ELSE LET insert == InsertOperation(position, ItemNodes(W, item),
                                           IF item.k = "frag" THEN "frag" ELSE "",
                                           versionFor(W, position.root))
                 W1 == addDelta(W, IF item.k = "text" THEN "weakinsert" ELSE "insert")
                 W2 == applyOperation(addOperation(W1, insert), insert)
             IN  IF item.k = "frag" THEN insertMarkers(W2, position, 1) ELSE W2))

\* insert() that does not remove the item from a parent in another tree
insert_NoRemove(W0, item, position0) ==
    Bind2(W0, position0, LAMBDA W, position : (
        IF W.error # "none" THEN W
        ELSE IF ~assertWriterUsageCorrectness(TheWriter) THEN Fail(W, Detached)
        ELSE IF item.k = "el" /\ ParentOf(W.children, item.v) # "none"
        THEN IF isSameTree(RootOf(W.children, item.v), position.root)
             THEN move(W, createOn(W.children, item.v), position)
             ELSE insertNodes(W, item, position)
        ELSE insertNodes(W, item, position)))

\* writer.insert( item, itemOrPosition, offset )
insert(W0, item, position0) ==
    Bind2(W0, position0, LAMBDA W, position : (
        IF W.error # "none" THEN W
        ELSE IF ~assertWriterUsageCorrectness(TheWriter) THEN Fail(W, Detached)
        ELSE IF item.k = "el" /\ ParentOf(W.children, item.v) # "none"
        THEN IF isSameTree(RootOf(W.children, item.v), position.root)
             THEN move(W, createOn(W.children, item.v), position)
             ELSE insertNodes(removeItem(W, item.v), item, position)
        ELSE insertNodes(W, item, position)))

\* a new Text node as an item
TextItem(c, attributes) == [k |-> "text", v |-> c, a |-> attributes]

ElementItem(e) == [k |-> "el", v |-> e, a |-> NoAttrs]

FragmentItem == [k |-> "frag", v |-> "frag", a |-> NoAttrs]

\* Position.createAt( parent, 'end' )
createAtEnd(ch, parent) == createFromParentAndOffset(ch, parent, maxOffset(ch, parent))

\* writer.insertText( text, attributes, itemOrPosition, offset )
insertText(W, text, attributes, position) ==
    insert(W, TextItem(text, attributes), position)

\* writer.insertElement( name, attributes, itemOrPosition, offset )
insertElement(W, name, attributes, position) ==
    insert(createElement(W, name, attributes), ElementItem(NewElement(W)), position)

\* writer.append( item, parent )
append(W, item, parent) == insert(W, item, createAtEnd(W.children, parent))

\* writer.appendText( text, attributes, parent )
appendText(W, text, attributes, parent) ==
    insert(W, TextItem(text, attributes), createAtEnd(W.children, parent))

\* writer.appendElement( name, attributes, parent )
appendElement(W, name, attributes, parent) ==
    insert(createElement(W, name, attributes), ElementItem(NewElement(W)),
           createAtEnd(W.children, parent))

\* an itemOrRange argument: a Range, or an element or root
RangeTarget(range) == [k |-> "range", range |-> range, item |-> ""]

ItemTarget(item) == [k |-> "item", range |-> NoRange, item |-> item]

\* writer.setAttribute( key, value, itemOrRange )
setAttribute(W0, key, value, itemOrRange) ==
    Bind(W0, LAMBDA W : (
        IF W.error # "none" THEN W
        ELSE IF ~assertWriterUsageCorrectness(TheWriter) THEN Fail(W, Detached)
        ELSE IF itemOrRange.k = "range"
        THEN setAttributeOnRange(W, key, value, itemOrRange.range)
        ELSE setAttributeOnItem(W, key, value, itemOrRange.item)))

RECURSIVE setAttributes(_, _, _)
\* writer.setAttributes( attributes, itemOrRange ), attributes as the
\* sequence of the entries of toMap( attributes )
setAttributes(W0, attributes, itemOrRange) ==
    Bind(W0, LAMBDA W : (
        IF Len(attributes) = 0 THEN W
        ELSE setAttributes(setAttribute(W, attributes[1].key, attributes[1].val, itemOrRange),
                           Tail(attributes), itemOrRange)))

\* writer.removeAttribute( key, itemOrRange )
removeAttribute(W0, key, itemOrRange) ==
    Bind(W0, LAMBDA W : (
        IF W.error # "none" THEN W
        ELSE IF ~assertWriterUsageCorrectness(TheWriter) THEN Fail(W, Detached)
        ELSE IF itemOrRange.k = "range"
        THEN setAttributeOnRange(W, key, NoVal, itemOrRange.range)
        ELSE setAttributeOnItem(W, key, NoVal, itemOrRange.item)))

\* the order attribute keys are iterated in
KeySeq == <<"k1", "k2">>

\* setAttributeOnItem for a piece of text (a TextProxy), given as the range
\* from before it to after it; had tells which keys the text had
removeAttributeFromText(W0, key, had, range) ==
    Bind(W0, LAMBDA W : (
        IF W.error # "none" THEN W
        ELSE IF ~assertWriterUsageCorrectness(TheWriter) THEN Fail(W, Detached)
        ELSE IF had[key] = NoVal THEN W
        ELSE LET operation == AttributeOperation(range, key, had[key], NoVal,
                                                 versionFor(W, range.start.root))
             IN  applyOperation(addOperation(addDelta(W, "attribute"), operation), operation)))

RECURSIVE Runs(_, _, _)
\* range.getItems(): the elements and the pieces of text of the walked items
\* from item i on; consecutive characters of one text node are one piece
Runs(W, items, i) ==
    IF i > Len(items) THEN <<>>
    ELSE Bind(Runs(W, items, i + 1), LAMBDA rest : (
             LET it == items[i]
                 attrsOf(x) == [k \in Keys |-> ItemAttribute(W, x, k)]
             IN  IF it.k = "el"
                 THEN <<[k |-> "el", v |-> it.v, a |-> NoAttrs, range |-> NoRange]>> \o rest
                 ELSE IF /\ Len(rest) > 0
                         /\ rest[1].k = "text"
                         /\ rest[1].range.start = it.next
                         /\ rest[1].a = attrsOf(it)
                 THEN <<[rest[1] EXCEPT !.range.start = it.prev]>> \o Tail(rest)
                 ELSE <<[k |-> "text", v |-> "", a |-> attrsOf(it),
                         range |-> Rng(it.prev, it.next)]>> \o rest))

RECURSIVE removeAttributesFromItem(_, _, _)
\* writer.clearAttributes(): removeAttributesFromItem( item ), from key i on
removeAttributesFromItem(W0, run, i) ==
    Bind(W0, LAMBDA W : (
        IF i > Len(KeySeq) \/ W.error # "none" THEN W
        ELSE LET key == KeySeq[i]
                 W1 == IF run.k = "el"
                       THEN IF W.attrs[run.v][key] # NoVal
                            THEN removeAttribute(W, key, ItemTarget(run.v))
                            ELSE W
                       ELSE removeAttributeFromText(W, key, run.a, run.range)
             IN  removeAttributesFromItem(W1, run, i + 1)))

RECURSIVE clearRuns(_, _, _)
clearRuns(W0, runs, i) ==
    Bind(W0, LAMBDA W : (
        IF i > Len(runs) THEN W
        ELSE clearRuns(removeAttributesFromItem(W, runs[i], 1), runs, i + 1)))

\* writer.clearAttributes( itemOrRange )
clearAttributes(W0, itemOrRange) ==
    Bind(W0, LAMBDA W : (
        IF W.error # "none" THEN W
        ELSE IF ~assertWriterUsageCorrectness(TheWriter) THEN Fail(W, Detached)
        ELSE IF itemOrRange.k = "item"
        THEN removeAttributesFromItem(
                 W, [k |-> "el", v |-> itemOrRange.item, a |-> NoAttrs, range |-> NoRange], 1)
        ELSE Bind(Walk(W.children, itemOrRange.range.start, itemOrRange.range.end),
                  LAMBDA items : (
                      Bind(Runs(W, items, 1), LAMBDA runs : clearRuns(W, runs, 1))))))

\* mutant of merge: the children are moved to the start of the element before
merge_MoveToStart(W0, position) ==
    Bind(W0, LAMBDA W : (
        LET ch == W.children
            W1 == addDelta(W, "merge")
            nodeBefore == EntryBefore(ch, position)
            nodeAfter == EntryAfter(ch, position)
        IN  IF W.error # "none" THEN W
            ELSE IF ~assertWriterUsageCorrectness(TheWriter) THEN Fail(W, Detached)
            ELSE IF nodeBefore.k # "el"
            THEN Fail(W1, "writer-merge-no-element-before")
            ELSE IF nodeAfter.k # "el"
            THEN Fail(W1, "writer-merge-no-element-after")
            ELSE LET positionAfter == createFromParentAndOffset(ch, nodeAfter.v, 0)
                     positionBefore == createFromParentAndOffset(ch, nodeBefore.v, 0)
                     mv == [MoveOperation(positionAfter, maxOffset(ch, nodeAfter.v),
                                          positionBefore, versionFor(W, position.root))
                                EXCEPT !.sticky = TRUE]
                 IN  addRemoveOperation(applyOperation(addOperation(W1, mv), mv), position, 1)))

\* writer.merge( position )
merge(W0, position) ==
    Bind(W0, LAMBDA W : (
        LET ch == W.children
            W1 == addDelta(W, "merge")
            nodeBefore == EntryBefore(ch, position)
            nodeAfter == EntryAfter(ch, position)
        IN  IF W.error # "none" THEN W
            ELSE IF ~assertWriterUsageCorrectness(TheWriter) THEN Fail(W, Detached)
            ELSE IF nodeBefore.k # "el"
            THEN Fail(W1, "writer-merge-no-element-before")
            ELSE IF nodeAfter.k # "el"
            THEN Fail(W1, "writer-merge-no-element-after")
            ELSE LET positionAfter == createFromParentAndOffset(ch, nodeAfter.v, 0)
                     positionBefore == createFromParentAndOffset(ch, nodeBefore.v,
                                                                 maxOffset(ch, nodeBefore.v))
                     mv == [MoveOperation(positionAfter, maxOffset(ch, nodeAfter.v),
                                          positionBefore, versionFor(W, position.root))
                                EXCEPT !.sticky = TRUE]
                 IN  addRemoveOperation(applyOperation(addOperation(W1, mv), mv), position, 1)))

\* writer.rename( element, newName ); the DocumentFragment is an argument
\* that is not an Element
rename(W0, element, newName) ==
    Bind(W0, LAMBDA W : (
        IF W.error # "none" THEN W
        ELSE IF ~assertWriterUsageCorrectness(TheWriter) THEN Fail(W, Detached)
        ELSE IF element \notin Elements
        THEN Fail(W, "writer-rename-not-element-instance")
        ELSE LET ch == W.children
                 renameOperation == RenameOperation(createBefore(ch, element), W.name[element],
                                                    newName, versionFor(W, RootOf(ch, element)))
             IN  applyOperation(addOperation(addDelta(W, "rename"), renameOperation),
                                renameOperation)))

\* mutant of split: the move carries the version the insert was based on
split_SameVersion(W0, position) ==
    Bind(W0, LAMBDA W : (
        LET ch == W.children
            W1 == addDelta(W, "split")
            splitElement == PosParent(ch, position)
        IN  IF W.error # "none" THEN W
            ELSE IF ~assertWriterUsageCorrectness(TheWriter) THEN Fail(W, Detached)
            ELSE IF splitElement \notin Elements \/ ParentOf(ch, splitElement) = "none"
            THEN Fail(W1, "writer-split-element-no-parent")
            ELSE LET copy == NewElement(W1)
                     W2 == createElement(W1, W.name[splitElement], W.attrs[splitElement])
                     insertVersion == versionFor(W, RootOf(ch, splitElement))
                     ins == InsertOperation(createAfter(ch, splitElement), <<El(copy)>>, "",
                                            insertVersion)
                     moveVersion == insertVersion
                 IN  Bind(applyOperation(addOperation(W2, ins), ins), LAMBDA W3 : (
                         LET mv == [MoveOperation(
                                        position,
                                        maxOffset(ch, splitElement) - PosOffset(position),
                                        createFromParentAndOffset(W3.children, copy, 0),
                                        moveVersion)
                                        EXCEPT !.sticky = TRUE]
                         IN  applyOperation(addOperation(W3, mv), mv)))))

\* mutant of split: the move is applied but not added to the delta
split_MoveNotInDelta(W0, position) ==
    Bind(W0, LAMBDA W : (
        LET ch == W.children
            W1 == addDelta(W, "split")
            splitElement == PosParent(ch, position)
        IN  IF W.error # "none" THEN W
            ELSE IF ~assertWriterUsageCorrectness(TheWriter) THEN Fail(W, Detached)
            ELSE IF splitElement \notin Elements \/ ParentOf(ch, splitElement) = "none"
            THEN Fail(W1, "writer-split-element-no-parent")
            ELSE LET copy == NewElement(W1)
                     W2 == createElement(W1, W.name[splitElement], W.attrs[splitElement])
                     insertVersion == versionFor(W, RootOf(ch, splitElement))
                     ins == InsertOperation(createAfter(ch, splitElement), <<El(copy)>>, "",
                                            insertVersion)
                     moveVersion == IF insertVersion # NullVersion THEN insertVersion + 1
                                    ELSE NullVersion
                 IN  Bind(applyOperation(addOperation(W2, ins), ins), LAMBDA W3 : (
                         LET mv == [MoveOperation(
                                        position,
                                        maxOffset(ch, splitElement) - PosOffset(position),
                                        createFromParentAndOffset(W3.children, copy, 0),
                                        moveVersion)
                                        EXCEPT !.sticky = TRUE]
                         IN  applyOperation(W3, mv)))))

\* mutant of split: the move of the nodes to the copy is not sticky
split_MoveNotSticky(W0, position) ==
    Bind(W0, LAMBDA W : (
        LET ch == W.children
            W1 == addDelta(W, "split")
            splitElement == PosParent(ch, position)
        IN  IF W.error # "none" THEN W
            ELSE IF ~assertWriterUsageCorrectness(TheWriter) THEN Fail(W, Detached)
            ELSE IF splitElement \notin Elements \/ ParentOf(ch, splitElement) = "none"
            THEN Fail(W1, "writer-split-element-no-parent")
            ELSE LET copy == NewElement(W1)
                     W2 == createElement(W1, W.name[splitElement], W.attrs[splitElement])
                     insertVersion == versionFor(W, RootOf(ch, splitElement))
                     ins == InsertOperation(createAfter(ch, splitElement), <<El(copy)>>, "",
                                            insertVersion)
                     moveVersion == IF insertVersion # NullVersion THEN insertVersion + 1
                                    ELSE NullVersion
                 IN  Bind(applyOperation(addOperation(W2, ins), ins), LAMBDA W3 : (
                         LET mv == MoveOperation(
                                        position,
                                        maxOffset(ch, splitElement) - PosOffset(position),
                                        createFromParentAndOffset(W3.children, copy, 0),
                                        moveVersion)
                         IN  applyOperation(addOperation(W3, mv), mv)))))

\* mutant of split: the copy is inserted before the element
split_CopyBefore(W0, position) ==
    Bind(W0, LAMBDA W : (
        LET ch == W.children
            W1 == addDelta(W, "split")
            splitElement == PosParent(ch, position)
        IN  IF W.error # "none" THEN W
            ELSE IF ~assertWriterUsageCorrectness(TheWriter) THEN Fail(W, Detached)
            ELSE IF splitElement \notin Elements \/ ParentOf(ch, splitElement) = "none"
            THEN Fail(W1, "writer-split-element-no-parent")
            ELSE LET copy == NewElement(W1)
                     W2 == createElement(W1, W.name[splitElement], W.attrs[splitElement])
                     insertVersion == versionFor(W, RootOf(ch, splitElement))
                     ins == InsertOperation(createBefore(ch, splitElement), <<El(copy)>>, "",
                                            insertVersion)
                     moveVersion == IF insertVersion # NullVersion THEN insertVersion + 1
                                    ELSE NullVersion
                 IN  Bind(applyOperation(addOperation(W2, ins), ins), LAMBDA W3 : (
                         LET mv == [MoveOperation(
                                        position,
                                        maxOffset(ch, splitElement) - PosOffset(position),
                                        createFromParentAndOffset(W3.children, copy, 0),
                                        moveVersion)
                                        EXCEPT !.sticky = TRUE]
                         IN  applyOperation(addOperation(W3, mv), mv)))))

\* writer.split( position )
split(W0, position) ==
    Bind(W0, LAMBDA W : (
        LET ch == W.children
            W1 == addDelta(W, "split")
            splitElement == PosParent(ch, position)
        IN  IF W.error # "none" THEN W
            ELSE IF ~assertWriterUsageCorrectness(TheWriter) THEN Fail(W, Detached)
            ELSE IF splitElement \notin Elements \/ ParentOf(ch, splitElement) = "none"
            THEN Fail(W1, "writer-split-element-no-parent")
            ELSE LET copy == NewElement(W1)
                     W2 == createElement(W1, W.name[splitElement], W.attrs[splitElement])
                     insertVersion == versionFor(W, RootOf(ch, splitElement))
                     ins == InsertOperation(createAfter(ch, splitElement), <<El(copy)>>, "",
                                            insertVersion)
                     moveVersion == IF insertVersion # NullVersion THEN insertVersion + 1
                                    ELSE NullVersion
                 IN  Bind(applyOperation(addOperation(W2, ins), ins), LAMBDA W3 : (
                         LET mv == [MoveOperation(
                                        position,
                                        maxOffset(ch, splitElement) - PosOffset(position),
                                        createFromParentAndOffset(W3.children, copy, 0),
                                        moveVersion)
                                        EXCEPT !.sticky = TRUE]
                         IN  applyOperation(addOperation(W3, mv), mv)))))

\* wrap() with the wrapper inserted at the start of the range
wrap_InsertAtStart(W0, range, elementOrString, fresh) ==
    Bind(W0, LAMBDA W : (
        IF W.error # "none" THEN W
        ELSE IF ~assertWriterUsageCorrectness(TheWriter) THEN Fail(W, Detached)
        ELSE IF ~isFlat(range)
        THEN Fail(W, "writer-wrap-range-not-flat")
        ELSE LET element == IF fresh THEN NewElement(W) ELSE elementOrString
                 Wn == IF fresh THEN createElement(W, elementOrString, NoAttrs) ELSE W
                 ch == W.children
             IN  IF Len(ch[element]) > 0
                 THEN Fail(Wn, "writer-wrap-element-not-empty")
                 ELSE IF ParentOf(ch, element) # "none"
                 THEN Fail(Wn, "writer-wrap-element-attached")
                 ELSE LET W1 == addDelta(Wn, "wrap")
                          insertVersion == versionFor(W, range.start.root)
                          ins == InsertOperation(range.start, <<El(element)>>, "", insertVersion)
                          moveVersion == IF insertVersion # NullVersion THEN insertVersion + 1
                                         ELSE NullVersion
                      IN  Bind(applyOperation(addOperation(W1, ins), ins), LAMBDA W2 : (
                              LET targetPosition ==
                                      createFromParentAndOffset(W2.children, element, 0)
                                  mv == MoveOperation(
                                            range.start,
                                            PosOffset(range.end) - PosOffset(range.start),
                                            targetPosition, moveVersion)
                              IN  applyOperation(addOperation(W2, mv), mv)))))

\* writer.wrap( range, elementOrString ); fresh: elementOrString is a name
wrap(W0, range, elementOrString, fresh) ==
    Bind(W0, LAMBDA W : (
        IF W.error # "none" THEN W
        ELSE IF ~assertWriterUsageCorrectness(TheWriter) THEN Fail(W, Detached)
        ELSE IF ~isFlat(range)
        THEN Fail(W, "writer-wrap-range-not-flat")
        ELSE LET element == IF fresh THEN NewElement(W) ELSE elementOrString
                 Wn == IF fresh THEN createElement(W, elementOrString, NoAttrs) ELSE W
                 ch == W.children
             IN  IF Len(ch[element]) > 0
                 THEN Fail(Wn, "writer-wrap-element-not-empty")
                 ELSE IF ParentOf(ch, element) # "none"
                 THEN Fail(Wn, "writer-wrap-element-attached")
                 ELSE LET W1 == addDelta(Wn, "wrap")
                          insertVersion == versionFor(W, range.start.root)
                          ins == InsertOperation(range.end, <<El(element)>>, "", insertVersion)
                          moveVersion == IF insertVersion # NullVersion THEN insertVersion + 1
                                         ELSE NullVersion
                      IN  Bind(applyOperation(addOperation(W1, ins), ins), LAMBDA W2 : (
                              LET targetPosition ==
                                      createFromParentAndOffset(W2.children, element, 0)
                                  mv == MoveOperation(
                                            range.start,
                                            PosOffset(range.end) - PosOffset(range.start),
                                            targetPosition, moveVersion)
                              IN  applyOperation(addOperation(W2, mv), mv)))))

\* unwrap() with the removal at the position the element had before the move
unwrap_RemoveAtOldPosition(W0, element) ==
    Bind(W0, LAMBDA W : (
        IF W.error # "none" THEN W
        ELSE IF ~assertWriterUsageCorrectness(TheWriter) THEN Fail(W, Detached)
        ELSE IF ParentOf(W.children, element) = "none"
        THEN Fail(W, "writer-unwrap-element-no-parent")
        ELSE LET ch == W.children
                 W1 == addDelta(W, "unwrap")
                 sourcePosition == createFromParentAndOffset(ch, element, 0)
                 mv == [MoveOperation(sourcePosition, maxOffset(ch, element),
                                      createBefore(ch, element),
                                      versionFor(W, sourcePosition.root))
                            EXCEPT !.sticky = TRUE]
             IN  Bind(applyOperation(addOperation(W1, mv), mv), LAMBDA W2 : (
                     IF W2.error # "none" THEN W2
                     ELSE addRemoveOperation(W2, createBefore(W.children, element), 1)))))

\* writer.unwrap( element )
unwrap(W0, element) ==
    Bind(W0, LAMBDA W : (
        IF W.error # "none" THEN W
        ELSE IF ~assertWriterUsageCorrectness(TheWriter) THEN Fail(W, Detached)
        ELSE IF ParentOf(W.children, element) = "none"
        THEN Fail(W, "writer-unwrap-element-no-parent")
        ELSE LET ch == W.children
                 W1 == addDelta(W, "unwrap")
                 sourcePosition == createFromParentAndOffset(ch, element, 0)
                 mv == [MoveOperation(sourcePosition, maxOffset(ch, element),
                                      createBefore(ch, element),
                                      versionFor(W, sourcePosition.root))
                            EXCEPT !.sticky = TRUE]
             IN  Bind(applyOperation(addOperation(W1, mv), mv), LAMBDA W2 : (
                     IF W2.error # "none" THEN W2
                     ELSE addRemoveOperation(W2, createBefore(W2.children, element), 1)))))

(***************************************************************************)
(* The calls made on the writer.                                           *)
(***************************************************************************)
MaxOps == 2

Names == {"paragraph", "blockQuote"}

Vals == {"v", "w"}

\* the state the calls start from:
\*   main:     <paragraph>[a: k1=v]b</paragraph><paragraph>c</paragraph>
\*   e3:       a blockQuote outside the document holding <paragraph>d</paragraph>
\*   e5:       an empty blockQuote outside the document
\*   fragment: x, with marker m2 around it
\*   marker m1 around "ab"
InitWorld ==
    [children |-> [c \in Conts |->
         CASE c = "main" -> <<El("e1"), El("e2")>>
           [] c = "e1" -> <<Ch("a", [NoAttrs EXCEPT !["k1"] = "v"]), Ch("b", NoAttrs)>>
           [] c = "e2" -> <<Ch("c", NoAttrs)>>
           [] c = "e3" -> <<El("e4")>>
           [] c = "e4" -> <<Ch("d", NoAttrs)>>
           [] c = "frag" -> <<Ch("x", NoAttrs)>>
           [] OTHER -> <<>>],
     name |-> [e \in Elements |->
         CASE e \in {"e1", "e2", "e4"} -> "paragraph"
           [] e \in {"e3", "e5"} -> "blockQuote"
           [] OTHER -> ""],
     attrs |-> [c \in Conts |-> NoAttrs],
     markers |-> [n \in MarkerNames |->
         IF n = "m1" THEN Rng(Pos("main", <<0, 0>>), Pos("main", <<0, 2>>)) ELSE NoRange],
     fragMarkers |-> [n \in MarkerNames |->
         IF n = "m2" THEN Rng(Pos("frag", <<0>>), Pos("frag", <<1>>)) ELSE NoRange],
     version |-> 0,
     deltas |-> <<>>,
     applied |-> <<>>,
     error |-> "none",
     created |-> 5,
     calls |-> 0,
     last |-> ""]

\* the positions the calls are made with, where the trees have them
PositionInputs(W) ==
    {p \in {Pos("main", <<0>>), Pos("main", <<1>>), Pos("main", <<0, 1>>),
            Pos("main", <<1, 1>>), Pos("e3", <<0, 0>>), Pos("e3", <<1>>),
            Pos("frag", <<0>>)} : ValidPos(W.children, p)}

\* the ranges the calls are made with, where the trees have them
RangeInputs(W) ==
    {r \in {Rng(Pos("main", <<0, 0>>), Pos("main", <<0, 2>>)),
            Rng(Pos("main", <<0, 1>>), Pos("main", <<1, 1>>)),
            Rng(Pos("main", <<0>>), Pos("main", <<1>>)),
            Rng(Pos("main", <<0>>), Pos("main", <<2>>)),
            Rng(Pos("e3", <<0, 0>>), Pos("e3", <<0, 1>>)),
            Rng(Pos("e3", <<0>>), Pos("e3", <<1>>)),
            Rng(Pos("frag", <<0>>), Pos("frag", <<1>>))} :
         ValidPos(W.children, r.start) /\ ValidPos(W.children, r.end)}

\* the elements constructed so far
Created(W) == {ElementSeq[i] : i \in 1..W.created}

WithParent(W) == {e \in Created(W) : ParentOf(W.children, e) # "none"}

\* characters i and i + 1 of container c are of one text node
SameText(W, c, i) ==
    /\ W.children[c][i].k = "ch"
    /\ W.children[c][i + 1].k = "ch"
    /\ W.children[c][i].a = W.children[c][i + 1].a

\* the text nodes of the paragraphs e1 and e2, each as the range over it
TextInputs(W) ==
    {r \in {Rng(Pos(RootOf(W.children, c), PathOf(W.children, c) \o <<from>>),
                Pos(RootOf(W.children, c), PathOf(W.children, c) \o <<to>>)) :
                c \in {"e1", "e2"}, from \in 0..2, to \in 1..3} :
        LET c == PosParent(W.children, r.start)
            from == PosOffset(r.start)
            to == PosOffset(r.end)
        IN  /\ c \in {"e1", "e2"}
            /\ from < to
            /\ to <= Len(W.children[c])
            /\ W.children[c][from + 1].k = "ch"
            /\ \A i \in (from + 1)..(to - 1) : SameText(W, c, i)
            /\ IF from = 0 THEN TRUE ELSE ~SameText(W, c, from)
            /\ IF to = Len(W.children[c]) THEN TRUE ELSE ~SameText(W, c, to)}

\* the item can go to the position: not into itself or into what it holds
Insertable(W, item, position) ==
    LET parent == PosParent(W.children, position)
    IN  CASE item.k = "frag" -> position.root # "frag"
          [] item.k = "el" /\ ParentOf(W.children, item.v) = "none" ->
                 ~IsAncestorOrSelf(W.children, item.v, parent)
          [] OTHER -> TRUE

\* the items the calls insert
ItemInputs == {TextItem("x", NoAttrs), FragmentItem, ElementItem("e2"), ElementItem("e3"),
               ElementItem("e4"), ElementItem("e5")}

TargetInputs(W) ==
    {RangeTarget(r) : r \in RangeInputs(W)}
        \cup {ItemTarget(c) : c \in {"main", "e1", "e3"}}

\* the place of a call: in the callback of a change
Calling == IF Len(stack) = 0 THEN FALSE ELSE Top.k = "cb"

CanCall == Calling /\ world.calls < MaxOps

\* the state a call starts in
Begin == [world EXCEPT !.error = "none"]

\* a call of a writer method leaving state W
Call(method, W) ==
    /\ world' = [W EXCEPT !.calls = world.calls + 1, !.last = method]
    /\ UNCHANGED <<scopeVars, clients, view, engine, converter>>

CallInsert ==
    /\ CanCall
    /\ \E item \in ItemInputs, position \in PositionInputs(world) :
           /\ Insertable(world, item, position)
           /\ Call("insert", insert(Begin, item, position))

CallInsertText ==
    /\ CanCall
    /\ \E attributes \in {NoAttrs, [NoAttrs EXCEPT !["k1"] = "v"]},
          position \in PositionInputs(world) :
           Call("insertText", insertText(Begin, "y", attributes, position))

CallInsertElement ==
    /\ CanCall
    /\ CanCreate(world)
    /\ \E position \in PositionInputs(world) :
           Call("insertElement", insertElement(Begin, "paragraph", NoAttrs, position))

CallAppend ==
    /\ CanCall
    /\ \E item \in ItemInputs, parent \in {"main", "e1", "e3"} :
           /\ Insertable(world, item, createAtEnd(world.children, parent))
           /\ Call("append", append(Begin, item, parent))

CallAppendText ==
    /\ CanCall
    /\ \E attributes \in {NoAttrs, [NoAttrs EXCEPT !["k1"] = "v"]},
          parent \in {"main", "e1", "e3"} :
           Call("appendText", appendText(Begin, "y", attributes, parent))

CallAppendElement ==
    /\ CanCall
    /\ CanCreate(world)
    /\ \E parent \in {"main", "e1", "e3"} :
           Call("appendElement", appendElement(Begin, "paragraph", NoAttrs, parent))

CallSetAttribute ==
    /\ CanCall
    /\ \E key \in Keys, value \in Vals, target \in TargetInputs(world) :
           Call("setAttribute", setAttribute(Begin, key, value, target))

CallSetAttributes ==
    /\ CanCall
    /\ \E attributes \in {<<>>, <<[key |-> "k1", val |-> "v"], [key |-> "k2", val |-> "w"]>>},
          target \in TargetInputs(world) :
           Call("setAttributes", setAttributes(Begin, attributes, target))

CallRemoveAttribute ==
    /\ CanCall
    /\ \E key \in Keys, target \in TargetInputs(world) :
           Call("removeAttribute", removeAttribute(Begin, key, target))

CallClearAttributes ==
    /\ CanCall
    /\ \E target \in TargetInputs(world) :
           Call("clearAttributes", clearAttributes(Begin, target))

CallMove ==
    /\ CanCall
    /\ \E range \in RangeInputs(world) \cup {NoRange}, position \in PositionInputs(world) :
           Call("move", move(Begin, range, position))

CallRemove ==
    /\ CanCall
    /\ \/ \E range \in RangeInputs(world) : Call("remove", removeRange(Begin, range))
       \/ \E e \in WithParent(world) : Call("remove", removeItem(Begin, e))
       \/ \E text \in TextInputs(world) : Call("remove", removeText(Begin, text))

CallMerge ==
    /\ CanCall
    /\ \E position \in PositionInputs(world) : Call("merge", merge(Begin, position))

CallRename ==
    /\ CanCall
    /\ \E element \in WithParent(world) \cup {"frag"} :
           Call("rename", rename(Begin, element, "blockQuote"))

CallSplit ==
    /\ CanCall
    /\ CanCreate(world)
    /\ \E position \in PositionInputs(world) : Call("split", split(Begin, position))

CallWrap ==
    /\ CanCall
    /\ \/ \E range \in RangeInputs(world), element \in {"e2", "e3", "e5"} :
              Call("wrap", wrap(Begin, range, element, FALSE))
       \/ /\ CanCreate(world)
          /\ \E range \in RangeInputs(world) :
                 Call("wrap", wrap(Begin, range, "blockQuote", TRUE))

CallUnwrap ==
    /\ CanCall
    /\ \E element \in Created(world) : Call("unwrap", unwrap(Begin, element))

CallSetMarker ==
    /\ CanCall
    /\ \E name \in MarkerNames, range \in RangeInputs(world) \cup {NoRange} :
           Call("setMarker", setMarker(Begin, name, range))

CallRemoveMarker ==
    /\ CanCall
    /\ \E name \in MarkerNames : Call("removeMarker", removeMarker(Begin, name))

\* the writer is handed to the model as the object of one enqueued change
EnqueueWriter == Len(calls) = 0 /\ enqueueChange(TheWriter)

\* one change() whose callback gets the Batch, the writer being detached
ChangeDetached == Len(calls) = 0 /\ change

(***************************************************************************)
(* Two actors, john and kate, edit copies of one document and exchange     *)
(* their operations (the transform tests).  Each actor's document is a     *)
(* state like the writer's.  Actor john is the one whose content goes      *)
(* first where both insert at one place.                                   *)
(***************************************************************************)
Actors == {"john", "kate"}

Other(actor) == IF actor = "john" THEN "kate" ELSE "john"

\* the document both actors start from (setData):
\*   <blockQuote><paragraph>ab</paragraph></blockQuote><paragraph>cde</paragraph>
InitDocument ==
    [InitWorld EXCEPT
        !.children = [c \in Conts |->
            CASE c = "main" -> <<El("e1"), El("e2")>>
              [] c = "e1" -> <<El("e3")>>
              [] c = "e3" -> <<Ch("a", NoAttrs), Ch("b", NoAttrs)>>
              [] c = "e2" -> <<Ch("c", NoAttrs), Ch("d", NoAttrs), Ch("e", NoAttrs)>>
              [] OTHER -> <<>>],
        !.name = [e \in Elements |-> IF e = "e1" THEN "blockQuote" ELSE "paragraph"],
        !.markers = [n \in MarkerNames |-> NoRange],
        !.fragMarkers = [n \in MarkerNames |-> NoRange]]

\* op: what each actor did (for a split: the kind and the place); delta: the
\* operations of a split; first: the actor that made its change first
InitClients ==
    [doc |-> [a \in Actors |-> InitDocument],
     op |-> [a \in Actors |-> BlankOp],
     delta |-> <<>>,
     first |-> "",
     synced |-> FALSE]

\* the places of the document
DocumentPositions ==
    {Pos("main", path) : path \in {<<0>>, <<1>>, <<2>>, <<0, 0>>, <<0, 1>>, <<0, 0, 0>>,
                                    <<0, 0, 1>>, <<0, 0, 2>>, <<1, 0>>, <<1, 1>>,
                                    <<1, 2>>, <<1, 3>>}}

\* the longest range an actor moves
MaxMove == 2

\* what an actor inserts: a new empty paragraph of its own, or a character
NewNodes(actor) ==
    IF actor = "john" THEN {<<El("e4")>>, <<Ch("x", NoAttrs)>>}
    ELSE {<<El("e5")>>, <<Ch("y", NoAttrs)>>}

\* the side whose insertion goes first at a place both insert at
isStrong(actor) == actor = "john"

\* mutant of transform: no side gives way at a place both insert at
transform_NoPriority(a, b, strong) ==
    LET howMany == IF b.type = "insert" THEN Len(b.nodes) ELSE b.howMany
        moved(pos) ==
            IF b.type = "insert"
            THEN getTransformedByInsertion(pos, b.pos, howMany, FALSE)
            ELSE getTransformedByMove(pos, b.pos, b.target, howMany, FALSE, b.sticky)
    IN  IF a.type = "insert"
        THEN [a EXCEPT !.pos = moved(a.pos), !.baseVersion = @ + 1]
        ELSE [a EXCEPT !.pos = getTransformedByInsertion(a.pos, b.pos, howMany, TRUE),
                       !.target = moved(a.target),
                       !.baseVersion = @ + 1]

\* mutant of transform: a move and its target keep their paths when the other
\* actor inserted into another element than the one they start in
transform_SameParentOnly(a, b, strong) ==
    LET howMany == IF b.type = "insert" THEN Len(b.nodes) ELSE b.howMany
        near(pos) == Front(pos.path) = Front(b.pos.path)
    IN  IF a.type = "insert"
        THEN [a EXCEPT
                 !.pos = IF b.type = "insert"
                         THEN getTransformedByInsertion(a.pos, b.pos, howMany, ~strong)
                         ELSE getTransformedByMove(a.pos, b.pos, b.target, howMany,
                                                   ~strong, b.sticky),
                 !.baseVersion = @ + 1]
        ELSE LET start == getTransformedByInsertion(a.pos, b.pos, howMany, ~a.sticky)
                 end == getTransformedByInsertion(ShiftedBy(a.pos, a.howMany), b.pos,
                                                  howMany, a.sticky)
             IN  [a EXCEPT
                     !.pos = IF near(a.pos) THEN start ELSE @,
                     !.howMany = IF near(a.pos) THEN PosOffset(end) - PosOffset(start) ELSE @,
                     !.target = IF near(a.target)
                                THEN getTransformedByInsertion(a.target, b.pos, howMany, ~strong)
                                ELSE @,
                     !.baseVersion = @ + 1]

\* mutant of transform: a move takes in what the other actor inserted at the
\* start of its range
transform_StartTakesIn(a, b, strong) ==
    LET howMany == IF b.type = "insert" THEN Len(b.nodes) ELSE b.howMany
    IN  IF a.type = "insert"
        THEN [a EXCEPT
                 !.pos = IF b.type = "insert"
                         THEN getTransformedByInsertion(a.pos, b.pos, howMany, ~strong)
                         ELSE getTransformedByMove(a.pos, b.pos, b.target, howMany,
                                                   ~strong, b.sticky),
                 !.baseVersion = @ + 1]
        ELSE LET start == getTransformedByInsertion(a.pos, b.pos, howMany, FALSE)
                 end == getTransformedByInsertion(ShiftedBy(a.pos, a.howMany), b.pos,
                                                  howMany, a.sticky)
             IN  [a EXCEPT
                     !.pos = start,
                     !.howMany = PosOffset(end) - PosOffset(start),
                     !.target = getTransformedByInsertion(a.target, b.pos, howMany, ~strong),
                     !.baseVersion = @ + 1]

\* mutant of transform: of two insertions at one position, the one of the
\* actor without priority is placed first
transform_WeakFirst(a, b, strong) ==
    LET howMany == IF b.type = "insert" THEN Len(b.nodes) ELSE b.howMany
    IN  IF a.type = "insert"
        THEN [a EXCEPT
                 !.pos = IF b.type = "insert"
                         THEN getTransformedByInsertion(a.pos, b.pos, howMany, strong)
                         ELSE getTransformedByMove(a.pos, b.pos, b.target, howMany,
                                                   ~strong, b.sticky),
                 !.baseVersion = @ + 1]
        ELSE LET start == getTransformedByInsertion(a.pos, b.pos, howMany, ~a.sticky)
                 end == getTransformedByInsertion(ShiftedBy(a.pos, a.howMany), b.pos,
                                                  howMany, a.sticky)
             IN  [a EXCEPT
                     !.pos = start,
                     !.howMany = PosOffset(end) - PosOffset(start),
                     !.target = getTransformedByInsertion(a.target, b.pos, howMany, ~strong),
                     !.baseVersion = @ + 1]

\* transform( a, b, context ): operation a, made against the version b was
\* made against, as it is to be applied after b.  Pairs with an insert:
\*   insert by insert, insert by move, move by insert
transform(a, b, strong) ==
    LET howMany == IF b.type = "insert" THEN Len(b.nodes) ELSE b.howMany
    IN  IF a.type = "insert"
        THEN [a EXCEPT
                 !.pos = IF b.type = "insert"
                         THEN getTransformedByInsertion(a.pos, b.pos, howMany, ~strong)
                         ELSE getTransformedByMove(a.pos, b.pos, b.target, howMany,
                                                   ~strong, b.sticky),
                 !.baseVersion = @ + 1]
        ELSE LET start == getTransformedByInsertion(a.pos, b.pos, howMany, ~a.sticky)
                 end == getTransformedByInsertion(ShiftedBy(a.pos, a.howMany), b.pos,
                                                  howMany, a.sticky)
             IN  [a EXCEPT
                     !.pos = start,
                     !.howMany = PosOffset(end) - PosOffset(start),
                     !.target = getTransformedByInsertion(a.target, b.pos, howMany, ~strong),
                     !.baseVersion = @ + 1]

\* an operation made by an actor on its document and applied there
Issue(actor, op) ==
    /\ ~clients.synced
    /\ clients.op[actor] = BlankOp
    /\ applyOperation(clients.doc[actor], op).error = "none"
    /\ clients' = [clients EXCEPT !.doc[actor] = applyOperation(@, op),
                                  !.op[actor] = op,
                                  !.first = IF @ = "" THEN actor ELSE @]
    /\ UNCHANGED <<scopeVars, world, view, engine, converter>>

\* john.insert( ... ) / john.type( ... )
JohnInsert ==
    \E position \in DocumentPositions, nodes \in NewNodes("john") :
        Issue("john", InsertOperation(position, nodes, "", 0))

\* kate.insert( ... ) / kate.type( ... )
KateInsert ==
    \E position \in DocumentPositions, nodes \in NewNodes("kate") :
        Issue("kate", InsertOperation(position, nodes, "", 0))

\* the move takes the range to another place: not to its own start or end,
\* where it would leave every node where it is
Displaces(source, howMany, target) ==
    ~(/\ Front(source.path) = Front(target.path)
      /\ PosOffset(source) <= PosOffset(target)
      /\ PosOffset(target) <= PosOffset(source) + howMany)

\* john.move( target, start, end )
JohnMove ==
    \E source, target \in DocumentPositions, howMany \in 1..MaxMove :
        /\ clients.op["kate"].type \notin {"move", "split"}
        /\ Displaces(source, howMany, target)
        /\ Issue("john", MoveOperation(source, howMany, target, 0))

\* kate.move( target, start, end )
KateMove ==
    \E source, target \in DocumentPositions, howMany \in 1..MaxMove :
        /\ clients.op["john"].type \notin {"move", "split"}
        /\ Displaces(source, howMany, target)
        /\ Issue("kate", MoveOperation(source, howMany, target, 0))

\* actor.split( position ): Writer.split in a change block of the actor's
\* model; the delta it makes is what the actor sends
Split(actor) ==
    /\ Calling
    /\ ~clients.synced
    /\ clients.op[actor] = BlankOp
    /\ clients.op[Other(actor)].type \notin {"move", "split"}
    /\ \E position \in DocumentPositions :
           LET W == split(clients.doc[actor], position)
           IN  /\ W.error = "none"
               /\ clients' = [clients EXCEPT
                      !.doc[actor] = W,
                      !.op[actor] = [BlankOp EXCEPT !.type = "split", !.pos = position],
                      !.delta = W.deltas[Len(W.deltas)].operations,
                      !.first = IF @ = "" THEN actor ELSE @]
    /\ UNCHANGED <<scopeVars, world, view, engine, converter>>

JohnSplit == Split("john")

KateSplit == Split("kate")

\* the operations an actor sends
Sent(actor) ==
    IF clients.op[actor].type = "split" THEN clients.delta ELSE <<clients.op[actor]>>

\* operation b transformed by the operations A[j..], each of them transformed
\* by b in its turn
RECURSIVE transformBy(_, _, _, _)
transformBy(b, A, j, strong) ==
    IF j > Len(A) THEN [op |-> b, by |-> A]
    ELSE transformBy(transform(b, A[j], strong),
                     [A EXCEPT ![j] = transform(A[j], b, ~strong)], j + 1, strong)

\* the operations B, made against the version the operations A were made
\* against, as they are to be applied after A
RECURSIVE transformSets(_, _, _)
transformSets(B, A, strong) ==
    IF B = <<>> THEN <<>>
    ELSE LET r == transformBy(B[1], A, 1, strong)
         IN  <<r.op>> \o transformSets(Tail(B), r.by, strong)

\* operations applied one after the other
RECURSIVE applyAll(_, _)
applyAll(W, ops) == IF ops = <<>> THEN W ELSE applyAll(applyOperation(W, ops[1]), Tail(ops))

\* the elements the operations insert
InsertedElements(ops) ==
    UNION {{ops[i].nodes[n].v : n \in {m \in 1..Len(ops[i].nodes) :
                                         ops[i].nodes[m].k = "el"}} : i \in 1..Len(ops)}

\* a received element comes with the name and the attributes its sender gave it
received(W, ops, sender) ==
    [W EXCEPT
        !.name = [e \in DOMAIN @ |->
                     IF e \in InsertedElements(ops) THEN sender.name[e] ELSE @[e]],
        !.attrs = [c \in DOMAIN @ |->
                      IF c \in InsertedElements(ops) THEN sender.attrs[c] ELSE @[c]]]

\* syncClients(): each actor gets the other's operations, transforms them by
\* its own and applies them
syncClients ==
    /\ ~clients.synced
    /\ \A a \in Actors : clients.op[a] # BlankOp
    /\ clients' = [clients EXCEPT
           !.doc = [a \in Actors |->
               applyAll(received(clients.doc[a], Sent(Other(a)), clients.doc[Other(a)]),
                        transformSets(Sent(Other(a)), Sent(a), isStrong(Other(a))))],
           !.synced = TRUE]
    /\ UNCHANGED <<scopeVars, world, view, engine, converter>>

\* expectClients(): the documents of the actors are equal trees, with no
\* operation refused on the way
Converged ==
    /\ \A a \in Actors : clients.doc[a].error = "none"
    /\ clients.doc["john"].children = clients.doc["kate"].children
    /\ clients.doc["john"].name = clients.doc["kate"].name
    /\ clients.doc["john"].attrs = clients.doc["kate"].attrs

(***************************************************************************)
(* Properties of the change scope.                                         *)
(***************************************************************************)
\* the calls whose callback sits in the queue of pending changes (not nested ones)
Queued(c) == c \in 1..Len(calls) /\ ~calls[c].nested

\* frames of queued callbacks that are on the stack
QueueFrames == {i \in 1..Len(stack) : stack[i].k = "cb" /\ stack[i].from = "queue"}

\* a queued change's callback is running (possibly further up the stack)
ChangeRunning == QueueFrames # {}

\* the object the running queued callback has received
RunningArg == stack[CHOOSE i \in QueueFrames : \A j \in QueueFrames : j <= i].arg

LogAt(t, c) == {i \in 1..Len(log) : log[i].t = t /\ log[i].id = c}

\* what the step appends to the log
NewEvents(lg, lg2) == {lg2[i].t : i \in (Len(lg) + 1)..Len(lg2)}

\* C6: the object that change() or enqueueChange() passes to a callback is a
\* Writer and it is the model's active writer while the callback runs: the
\* usage check of any mutating method invoked on it passes.
C6_CallbackGetsActiveWriter ==
    \A i \in 1..Len(stack) :
        stack[i].k = "cb" /\ stack[i].from = "queue" =>
            /\ stack[i].arg \in Writers
            /\ assertWriterUsageCorrectness(stack[i].arg)

\* C7: a change() call made while a change is running invokes its callback at
\* once with the writer object of the enclosing change, creates no Batch, adds
\* nothing to the queue of pending changes, fires no event, and returns what
\* the nested callback returns.
C7_NestedChange ==
    [][ /\ ( /\ ChangeRunning
             /\ Len(calls') = Len(calls) + 1
             /\ calls'[Len(calls')].api = "change" )
            => /\ stack' = Append(stack, CbFrame("nested", Len(calls'), RunningArg))
               /\ nBatches' = nBatches
               /\ nDrains' = nDrains
               /\ pendingChanges' = pendingChanges
               /\ currentWriter' = currentWriter
               /\ NewEvents(log, log') \cap {"change", "changesDone"} = {}
        /\ ( /\ Len(stack) > 0
             /\ Top.k = "cb"
             /\ Top.from = "nested"
             /\ Len(stack') = Len(stack) - 1
             /\ "cbEnd" \in NewEvents(log, log') )
            => /\ returned' = [call |-> Top.id, value |-> Result(Top.id)]
               /\ pendingChanges' = pendingChanges
               /\ NewEvents(log, log') \cap {"change", "changesDone"} = {}
      ]_vars

\* C7 witness: a change() nested in a running change has returned its
\* callback's value while the enclosing callback is still running.
C7_Witness ==
    /\ ChangeRunning
    /\ returned.call \in 1..Len(calls)
    /\ calls[returned.call].nested
    /\ returned.value = Result(returned.call)
    /\ Len(log) > 0
    /\ log[Len(log)] = Ev("return", returned.call, 0)

\* C8: queued callbacks start in the order of their calls, each only after
\* every queued callback started before it has returned, each with the batch
\* given to its own call; two queued callbacks are never on the stack together.
C8_QueuedChangesInOrder ==
    /\ Cardinality(QueueFrames) <= 1
    /\ \A i \in QueueFrames : stack[i].arg = calls[stack[i].id].batch
    /\ \A i \in 1..Len(log) :
           log[i].t = "cbStart" /\ Queued(log[i].id) =>
               \A c \in 1..(log[i].id - 1) :
                   Queued(c) =>
                       /\ \E j \in LogAt("cbStart", c) : j < i
                       /\ \E j \in LogAt("cbEnd", c) : j < i

\* C8 witness: two changes enqueued while the first change was running have
\* both been started, the second of them after the first returned.
C8_Witness ==
    /\ Len(calls) >= 3
    /\ calls[2].api = "enqueueChange"
    /\ calls[3].api = "enqueueChange"
    /\ \E i \in LogAt("call", 3) : \A j \in LogAt("cbEnd", 1) : i < j
    /\ calls[2].batch # calls[3].batch
    /\ LogAt("cbEnd", 2) # {}
    /\ LogAt("cbStart", 3) # {}

\* C9: every drain of the queue of pending changes fires 'changesDone' once:
\* never twice, and once by the time the call that started the drain returns.
C9_ChangesDoneOncePerDrain ==
    \A d \in 1..nDrains :
        LET fired == {i \in 1..Len(log) : log[i].t = "changesDone" /\ log[i].d = d}
        IN  /\ Cardinality(fired) <= 1
            /\ (\E i \in 1..Len(log) : log[i].t = "return" /\ log[i].d = d)
                   => Cardinality(fired) = 1

\* C10: 'change' fires once for every queued change whose callback returned,
\* right after the return and so before the next queued callback starts; it
\* fires at no other time; the 'change' events of a drain come before the
\* drain's 'changesDone'.
C10_ChangeEventPerChange ==
    /\ \A i \in 1..Len(log) :
           log[i].t = "cbEnd" /\ Queued(log[i].id) =>
               /\ i < Len(log)
               /\ log[i + 1] = Ev("change", log[i].id, log[i].d)
    /\ \A i \in 1..Len(log) :
           log[i].t = "change" =>
               /\ i > 1
               /\ log[i - 1] = Ev("cbEnd", log[i].id, log[i].d)
               /\ Queued(log[i].id)
               /\ Cardinality(LogAt("change", log[i].id)) = 1
               /\ \A k \in 1..Len(log) :
                      log[k].t = "changesDone" /\ log[k].d = log[i].d => i < k

\* C10 witness: a drain that ran two queued changes has fired 'change' for
\* each of them and then 'changesDone'.
C10_Witness ==
    \E i, j, k \in 1..Len(log) :
        /\ i < j
        /\ j < k
        /\ log[i].t = "change"
        /\ log[j].t = "change"
        /\ log[k].t = "changesDone"
        /\ log[i].d = log[k].d
        /\ log[j].d = log[k].d

\* C11: whenever an outermost change() or enqueueChange() call has returned
\* normally the queue of pending changes is empty and the model has no
\* current writer: the change scope is idle again.
C11_IdleAfterReturn ==
    (Len(stack) = 0 /\ Len(log) > 0 /\ log[Len(log)].t = "return")
        => (pendingChanges = <<>> /\ currentWriter = Null)

\* the queued calls whose callback has thrown
Failed == {c \in 1..Len(calls) : Queued(c) /\ LogAt("throw", c) # {}}

\* the calls made after the callback of call c threw
LaterCalls(c) ==
    {c2 \in 1..Len(calls) :
        \E i \in LogAt("call", c2) : \A j \in LogAt("throw", c) : j < i}

IdleCall(api) ==
    /\ Len(calls') = Len(calls) + 1
    /\ calls'[Len(calls')].api = api
    /\ pendingChanges = <<>>

\* the step is the return of call c
Returns(c) == \E d \in 0..nDrains' : log' = Append(log, Ev("return", c, d))

\* the place in the log of the one event t of call c
At(lg, t, c) == CHOOSE i \in 1..Len(lg) : lg[i].t = t /\ lg[i].id = c

\* in log lg the drain that call c started has run the callback of c and of
\* every enqueueChange() made during the drain, each to its end, and has then
\* fired 'changesDone'
DrainDone(lg, c) ==
    \E k \in 1..Len(lg) :
        /\ lg[k].t = "changesDone"
        /\ lg[k].d = lg[At(lg, "call", c)].d
        /\ At(lg, "call", c) < k
        /\ \A i \in At(lg, "call", c)..k :
               (/\ lg[i].t = "call"
                /\ (calls[lg[i].id].api = "enqueueChange" \/ lg[i].id = c))
                   => \E s, e \in 1..k :
                          /\ i < s
                          /\ s < e
                          /\ lg[s] = Ev("cbStart", lg[i].id, lg[k].d)
                          /\ lg[e] = Ev("cbEnd", lg[i].id, lg[k].d)

\* C32: change() called with no change pending constructs a Batch no call had
\* before and starts its callback with it; when it returns it returns the
\* value of its own callback, and the drain it started has by then run every
\* change enqueued during it and fired 'changesDone'.  enqueueChange() called
\* with no change pending starts its callback within the call, and the
\* callback has ended when the call returns.
C32_IdleCalls ==
    [][/\ IdleCall("change") =>
              /\ nBatches' = nBatches + 1
              /\ calls'[Len(calls')].batch = Batch(nBatches')
              /\ \A c \in 1..Len(calls) : calls[c].batch # Batch(nBatches')
              /\ currentWriter' = Batch(nBatches')
              /\ stack'[Len(stack')] = CbFrame("queue", Len(calls'), Batch(nBatches'))
       /\ \A c \in 1..Len(calls) :
              (Returns(c) /\ calls[c].api = "change" /\ ~calls[c].nested) =>
                  /\ returned' = [call |-> c, value |-> Result(c)]
                  /\ DrainDone(log, c)
       /\ IdleCall("enqueueChange") =>
              /\ stack'[Len(stack')]
                     = CbFrame("queue", Len(calls'), calls'[Len(calls')].batch)
              /\ LogAt("return", Len(calls')) = {}
       /\ \A c \in 1..Len(calls) :
              (Returns(c) /\ calls[c].api = "enqueueChange" /\ log[At(log, "call", c)].d > 0)
                  => DrainDone(log, c)]_vars

\* C32 witness: the first change() has returned the value of its callback
\* after the callback of an enqueueChange() made during it had run and
\* 'changesDone' had fired.
C32_Witness ==
    /\ Len(calls) >= 2
    /\ calls[1].api = "change"
    /\ calls[2].api = "enqueueChange"
    /\ Len(stack) = 0
    /\ returned = [call |-> 1, value |-> Result(1)]
    /\ log[Len(log)].t = "return"
    /\ \E i \in LogAt("call", 2) : \A j \in LogAt("cbEnd", 1) : i < j
    /\ LogAt("cbEnd", 2) # {}

\* the listeners of 'change' are running, and nothing they called
InChangeListener == Len(stack) > 1 /\ Top.k = "listener" /\ Top.from = "change"

\* call c is an enqueueChange() that found a change pending
Deferred(lg, c) ==
    /\ calls[c].api = "enqueueChange"
    /\ LogAt("call", c) # {}
    /\ lg[At(lg, "call", c)].d = 0

\* C33: while the listeners of 'change' of a queued change run, the change
\* is the head of the queue, its callback has ended and the object given to it
\* is the current writer.  A change() made from such a listener starts its
\* callback at once, nested, with that object and constructs no Batch; an
\* enqueueChange() made from such a listener appends its entry and starts no
\* callback.  The callback of a deferred enqueueChange() starts when the
\* listeners of 'change' return, with the 'changesDone' of the drain not yet
\* fired, and the drain fires its 'changesDone' with the queue empty, every
\* entry that has left the queue having run its callback to the end.
C33_ChangeListeners ==
    /\ [](\A i \in 2..Len(stack) :
              (stack[i].k = "listener" /\ stack[i].from = "change") =>
                  /\ pendingChanges # <<>>
                  /\ LogAt("cbEnd", pendingChanges[1].callback) # {}
                  /\ LogAt("change", pendingChanges[1].callback) # {}
                  /\ currentWriter = pendingChanges[1].batch
                  /\ currentWriter = calls[pendingChanges[1].callback].batch
                  /\ currentWriter # Null)
    /\ [](\A c \in 1..Len(calls) :
              (Queued(c) /\ \A e \in 1..Len(pendingChanges) : pendingChanges[e].callback # c)
                  => (LogAt("cbEnd", c) # {} /\ LogAt("change", c) # {}))
    /\ [][(InChangeListener /\ Len(calls') = Len(calls) + 1) =>
              IF calls'[Len(calls')].api = "change"
              THEN /\ stack' = Append(stack, CbFrame("nested", Len(calls'),
                                                     pendingChanges[1].batch))
                   /\ calls'[Len(calls')].nested
                   /\ nBatches' = nBatches
                   /\ nDrains' = nDrains
                   /\ pendingChanges' = pendingChanges
              ELSE /\ stack' = stack
                   /\ pendingChanges'
                          = Append(pendingChanges, [batch |-> calls'[Len(calls')].batch,
                                                    callback |-> Len(calls')])
                   /\ "cbStart" \notin NewEvents(log, log')]_vars
    /\ [][\A c \in 1..Len(calls) :
              (Deferred(log, c) /\ LogAt("cbStart", c) = {}
                  /\ log'[Len(log')].t = "cbStart" /\ log'[Len(log')].id = c)
                  => /\ InChangeListener
                     /\ pendingChanges'[1].callback = c
                     /\ \A k \in 1..Len(log') :
                            ~(log'[k].t = "changesDone" /\ log'[k].d = log'[Len(log')].d)]_vars
    /\ [][(/\ Len(stack') > 1
           /\ stack'[Len(stack')] = ListenerFrame("changesDone")
           /\ stack'[Len(stack') - 1].pc = "changesDone"
           /\ Len(log') = Len(log) + 1
           /\ log'[Len(log')].t = "changesDone")
              => pendingChanges' = <<>>]_vars

\* C33 witness: from the listeners of 'change' of the first change a change()
\* was made, which ran nested, and an enqueueChange(), whose callback ran
\* after the listeners returned; 'changesDone' has fired after it.
C33_Witness ==
    /\ Len(calls) = 3
    /\ calls[1].api = "change"
    /\ calls[2].api = "change"
    /\ calls[2].nested
    /\ calls[3].api = "enqueueChange"
    /\ LogAt("change", 1) # {}
    /\ LogAt("cbStart", 3) # {}
    /\ LogAt("cbEnd", 3) # {}
    /\ LogAt("return", 2) # {}
    /\ At(log, "change", 1) < At(log, "call", 2)
    /\ At(log, "return", 2) < At(log, "call", 3)
    /\ At(log, "call", 3) < At(log, "cbStart", 3)
    /\ \A i \in At(log, "change", 1)..At(log, "cbStart", 3) : log[i].t # "throw"
    /\ log[Len(log)].t = "changesDone"

(***************************************************************************)
(* Properties of the writer.                                               *)
(***************************************************************************)
\* the operations Model.applyOperation has executed, in order
Executed == SelectSeq(world.applied, LAMBDA a : a.ok)

\* the step is a call of a writer method
WriterCalled == world'.calls = world.calls + 1

\* what a call can be observed to change: the trees, the markers, the
\* document version and the deltas of the batch
Observable(W, known) ==
    [children |-> W.children,
     name |-> [e \in known |-> W.name[e]],
     attrs |-> [c \in (Conts \ Elements) \cup known |-> W.attrs[c]],
     markers |-> W.markers,
     fragMarkers |-> W.fragMarkers,
     version |-> W.version,
     deltas |-> W.deltas]

\* the step leaves everything observable as it was
NoEffect == Observable(world', Created(world)) = Observable(world, Created(world))

\* the errors of the checks the writer methods make on their arguments
PreconditionErrors ==
    {"writer-move-invalid-range", "writer-move-range-not-flat",
     "writer-move-different-document", "writer-merge-no-element-before",
     "writer-merge-no-element-after", "writer-rename-not-element-instance",
     "writer-split-element-no-parent", "writer-wrap-range-not-flat",
     "writer-wrap-element-not-empty", "writer-wrap-element-attached",
     "writer-unwrap-element-no-parent", "writer-setMarker-no-range",
     "writer-removeMarker-no-marker", Detached}

C4_RejectedCallHasNoEffect ==
    [][WriterCalled /\ world'.error \in PreconditionErrors => NoEffect]_vars

\* C5: every call of a mutating writer method made while the writer is not
\* the model's active writer fails with the detached-writer error, without a
\* delta added or an operation applied.
C5_DetachedWriterRejected ==
    [][WriterCalled /\ ~assertWriterUsageCorrectness(TheWriter)
           => /\ world'.error = Detached
              /\ NoEffect
              /\ world'.applied = world.applied]_vars

\* the deltas the call of this step added to the batch
NewDeltas == SubSeq(world'.deltas, Len(world.deltas) + 1, Len(world'.deltas))

\* the roots, other than the graveyard, of the trees a sequence of operations
\* changes
RootsOf(ops) ==
    ({OpRoot(ops[i]) : i \in 1..Len(ops)}
        \cup {ops[i].target.root : i \in {j \in 1..Len(ops) : ops[j].type = "move"}})
    \ {"", "graveyard"}

\* delta k of the deltas a call made in state W, applied after the deltas
\* before it, and then its inverse, leave every tree the delta changed as it
\* was before the delta
DeltaUndone(W, deltas, k) ==
    LET before == applyAll(W, OperationsOf(SubSeq(deltas, 1, k - 1)))
        ops == deltas[k].operations
        undone == applyReversed(applyAll(before, ops), ops, Len(ops))
    IN  (\A i \in 1..Len(ops) : Reversible(ops[i]))
            => /\ undone.error = "none"
               /\ \A root \in RootsOf(ops) : TreeOf(undone, root) = TreeOf(before, root)

\* C12: each delta of a writer call applied, and then its inverse (its
\* operations inverted, in reverse order), leave every tree the delta changed
\* as it was before the delta, in structure, names and attributes.  A delta
\* with a DetachOperation has no inverse.
C12_DeltaThenInverse ==
    [][(WriterCalled /\ world'.error = "none")
       => /\ applyAll(Begin, OperationsOf(NewDeltas)).children = world'.children
          /\ \A k \in 1..Len(NewDeltas) : DeltaUndone(Begin, NewDeltas, k)]_vars

\* C12 witness: a split in the document has been made, and the inverse of its
\* delta takes the nodes back out of the copy and the copy out of the tree.
C12_Witness ==
    /\ world.last = "split"
    /\ world.error = "none"
    /\ LET delta == world.deltas[Len(world.deltas)]
           ops == delta.operations
           undone == applyReversed(world, ops, Len(ops))
           copy == ops[1].nodes[1].v
       IN  /\ delta.type = "split"
           /\ Len(ops) = 2
           /\ InDocument(OpRoot(ops[1]))
           /\ ops[2].howMany > 0
           /\ world.children[copy] # <<>>
           /\ undone.error = "none"
           /\ undone.children[copy] = <<>>
           /\ RootOf(undone.children, copy) = "graveyard"
           /\ RootOf(world.children, copy) = "main"

\* the operations handed to Model.applyOperation during the call of this step
NewOperations ==
    [i \in 1..(Len(world'.applied) - Len(world.applied)) |->
        world'.applied[Len(world.applied) + i].op]

\* the methods that make one delta in every successful call
OneDeltaMethods ==
    {"insertText", "insertElement", "appendText", "appendElement", "move", "merge",
     "rename", "split", "wrap", "unwrap", "setMarker", "removeMarker"}

\* C13 as stated: every successful call of a mutating writer method appends
\* exactly one delta to the batch, and the operations applied during the call
\* are the operations of that delta, in its order.
C13_OneDeltaPerCall ==
    [][(WriterCalled /\ world'.error = "none")
       => /\ Len(world'.deltas) = Len(world.deltas) + 1
          /\ SubSeq(world'.deltas, 1, Len(world.deltas)) = world.deltas
          /\ NewOperations = world'.deltas[Len(world'.deltas)].operations]_vars

\* C13 as amended: every successful call of a mutating writer method appends
\* its deltas to the batch, exactly one for the methods of OneDeltaMethods,
\* none, one or several for the others; the operations applied during the
\* call are the operations of those deltas, in the order of the deltas and
\* of the operations in each.
C13_OperationsInDeltasOfCall ==
    [][(WriterCalled /\ world'.error = "none")
       => /\ Len(world'.deltas) >= Len(world.deltas)
          /\ SubSeq(world'.deltas, 1, Len(world.deltas)) = world.deltas
          /\ NewOperations = OperationsOf(NewDeltas)
          /\ world'.last \in OneDeltaMethods => Len(NewDeltas) = 1]_vars

\* C13 witness: one call of remove with a range that is not flat has added a
\* delta for each of its flat ranges, each with the operation applied for it.
C13_Witness ==
    /\ world.calls = 1
    /\ world.last = "remove"
    /\ world.error = "none"
    /\ Len(world.deltas) >= 2
    /\ Len(world.applied) = Len(world.deltas)
    /\ \A i \in 1..Len(world.deltas) :
           /\ world.deltas[i].type = "remove"
           /\ world.deltas[i].operations = <<world.applied[i].op>>
           /\ world.applied[i].ok

\* the call that ended in state W was rejected with error err and left the
\* trees, markers, version, deltas and applied operations as they are now
RejectedWith(W, err) ==
    /\ W.error = err
    /\ Observable(W, Created(world)) = Observable(world, Created(world))
    /\ W.applied = world.applied

\* ranges that are not flat, where the trees have them
NotFlatInputs(W) ==
    {r \in {Rng(Pos("main", <<0, 1>>), Pos("main", <<1, 1>>)),
            Rng(Pos("main", <<0, 0>>), Pos("main", <<1>>)),
            Rng(Pos("main", <<0>>), Pos("main", <<1, 0>>)),
            Rng(Pos("main", <<1, 0>>), Pos("main", <<2>>)),
            Rng(Pos("e3", <<0, 0>>), Pos("e3", <<1>>))} :
         ValidPos(W.children, r.start) /\ ValidPos(W.children, r.end) /\ ~isFlat(r)}

\* C14: with the writer active, move() and wrap() called with a range that
\* is not flat fail with the range-not-flat error, whatever the other
\* argument, with no delta added and no operation applied.
C14_NotFlatRejected ==
    assertWriterUsageCorrectness(TheWriter) =>
        \A range \in NotFlatInputs(world) :
            /\ \A position \in PositionInputs(world) :
                   RejectedWith(move(Begin, range, position), "writer-move-range-not-flat")
            /\ \A element \in {"e2", "e3", "e5"} :
                   RejectedWith(wrap(Begin, range, element, FALSE),
                                "writer-wrap-range-not-flat")
            /\ RejectedWith(wrap(Begin, range, "blockQuote", TRUE),
                            "writer-wrap-range-not-flat")

\* C14 witness: a call of wrap has just been rejected for a range that is not
\* flat, and the range is still there for move to reject.
C14_Witness ==
    /\ world.last = "wrap"
    /\ world.error = "writer-wrap-range-not-flat"
    /\ world.calls = 2
    /\ world.deltas # <<>>
    /\ \E range \in NotFlatInputs(world) :
           \E position \in PositionInputs(world) :
               move(Begin, range, position).error = "writer-move-range-not-flat"

\* the positions move() is tried with: those of the calls and the start of
\* the graveyard
MoveTargets(W) == PositionInputs(W) \cup {GraveyardPosition}

\* the flat ranges move() is tried with: those of the calls and the first
\* node of the graveyard, where there is one
MoveRanges(W) ==
    {r \in RangeInputs(W) : isFlat(r)}
        \cup {r \in {Rng(GraveyardPosition, Pos("graveyard", <<1>>))} :
                  ValidPos(W.children, r.end)}

\* C15: with the writer active and a flat range, move() fails with the
\* different-document error, and changes nothing, exactly when the root of
\* the range and the root of the position are neither one root nor both
\* roots of the document (main root, graveyard).
C15_MoveWithinOneTree ==
    assertWriterUsageCorrectness(TheWriter) =>
        \A range \in MoveRanges(world), position \in MoveTargets(world) :
            LET rootA == range.start.root
                rootB == position.root
                moved == move(Begin, range, position)
            IN  IF rootA = rootB \/ (InDocument(rootA) /\ InDocument(rootB))
                THEN moved.error # "writer-move-different-document"
                ELSE RejectedWith(moved, "writer-move-different-document")

\* C15 witness: a call of move between the document and a tree outside it has
\* just been rejected, and a node of the graveyard can be moved to the main
\* root.
C15_Witness ==
    /\ world.last = "move"
    /\ world.error = "writer-move-different-document"
    /\ world.children["graveyard"] # <<>>
    /\ \E position \in PositionInputs(world) :
           /\ position.root = "main"
           /\ move(Begin, Rng(GraveyardPosition, Pos("graveyard", <<1>>)), position).error
                  = "none"

\* the maximal runs of walked items with one value of key: RunStarts are
\* the indexes of their first items, RunEnd( s ) is the last item of the run
\* that starts at s
RunStarts(vals) == {i \in 1..Len(vals) : IF i = 1 THEN TRUE ELSE vals[i] # vals[i - 1]}

RunEnd(vals, s) ==
    CHOOSE e \in s..Len(vals) :
        /\ \A m \in (s + 1)..e : m \notin RunStarts(vals)
        /\ IF e = Len(vals) THEN TRUE ELSE e + 1 \in RunStarts(vals)

\* the m-th of the set of indexes S, in increasing order
Nth(S, m) == CHOOSE s \in S : Cardinality({t \in S : t < s}) = m - 1

\* setAttribute( key, value, range ) in the state W has made, in this order,
\* one AttributeOperation for each maximal run of items of the range with one
\* value that is not `value`, from that value to `value`, on a range that
\* holds the items of the run and no other
OneOperationPerRun(W, key, value, range) ==
    Bind2(setAttribute(W, key, value, RangeTarget(range)),
          Walk(W.children, range.start, range.end), LAMBDA after, items : (
        Bind2(SubSeq(after.applied, Len(W.applied) + 1, Len(after.applied)),
              [i \in 1..Len(items) |-> ItemAttribute(W, items[i], key)], LAMBDA new, vals : (
            Bind(RunStarts(vals), LAMBDA starts : (
                LET needed == {s \in starts : vals[s] # value}
                IN  /\ after.error = "none"
                    /\ Len(new) = Cardinality(needed)
                    /\ \A m \in 1..Len(new) :
                           LET s == Nth(needed, m) IN
                           /\ new[m].ok
                           /\ new[m].op.type = "attribute"
                           /\ new[m].op.key = key
                           /\ new[m].op.old = vals[s]
                           /\ new[m].op.new = value
                           /\ Walk(W.children, new[m].op.range.start, new[m].op.range.end)
                                  = SubSeq(items, s, RunEnd(vals, s))))))))

\* C20: where a call can be made with the writer active, setAttribute( key,
\* value, range ) applies
\* one AttributeOperation per maximal run of items of the range whose value
\* of key is one value other than `value`, and none for the runs that hold
\* `value`; the operation records the value of its run as the old one; the
\* ranges of the operations hold the items of their runs and nothing else
\* (so they are disjoint and inside the range), and the operations are
\* applied in the order of the runs in the document.
C20_OneOperationPerRun ==
    (CanCall /\ assertWriterUsageCorrectness(TheWriter)) =>
        \A key \in Keys, value \in Vals, range \in RangeInputs(world) :
            OneOperationPerRun(Begin, key, value, range)

\* C20 witness: a call of setAttribute on a range has just applied two
\* operations with different old values, in one delta, and there is a range
\* with three runs, two of which do not hold the value.
C20_Witness ==
    /\ world.last = "setAttribute"
    /\ world.error = "none"
    /\ world.deltas # <<>>
    /\ LET delta == world.deltas[Len(world.deltas)]
       IN  /\ delta.type = "attribute"
           /\ Len(delta.operations) = 2
           /\ delta.operations[1].old # delta.operations[2].old
           /\ delta.operations[1].range.end = delta.operations[2].range.start
    /\ \E key \in Keys, value \in Vals, range \in RangeInputs(world) :
           LET items == Walk(world.children, range.start, range.end)
               vals == [i \in 1..Len(items) |-> ItemAttribute(world, items[i], key)]
           IN  /\ Cardinality(RunStarts(vals)) = 3
               /\ Cardinality({s \in RunStarts(vals) : vals[s] # value}) = 2
               /\ OneOperationPerRun(Begin, key, value, range)

RECURSIVE Without(_, _)
\* the sequence without its entries at the indexes of drop
Without(seq, drop) ==
    IF seq = <<>> THEN <<>>
    ELSE Without(Front(seq), drop) \o (IF Len(seq) \in drop THEN <<>> ELSE <<Last(seq)>>)

\* the indexes of the children of c that the flat ranges hold
HeldBy(W, flats, c) ==
    {i \in 1..Len(W.children[c]) :
        \E k \in 1..Len(flats) :
            /\ PosParent(W.children, flats[k].start) = c
            /\ PosOffset(flats[k].start) < i
            /\ i <= PosOffset(flats[k].end)}

RECURSIVE NodesOf(_, _)
\* the nodes the flat ranges hold, in the order of the ranges
NodesOf(W, flats) ==
    IF flats = <<>> THEN <<>>
    ELSE SubSeq(W.children[PosParent(W.children, flats[1].start)],
                PosOffset(flats[1].start) + 1, PosOffset(flats[1].end))
             \o NodesOf(W, Tail(flats))

\* the operations and deltas a call added that took W to after
AppliedSince(W, after) == SubSeq(after.applied, Len(W.applied) + 1, Len(after.applied))

DeltasSince(W, after) == SubSeq(after.deltas, Len(W.deltas) + 1, Len(after.deltas))

\* the call that took W to after removed the flat ranges, the last first,
\* each with a remove delta of one operation, and the trees lost the nodes
\* the ranges held in W and no other
RemovedFlatRanges(W, after, flats, root) ==
    LET new == AppliedSince(W, after)
        deltas == DeltasSince(W, after)
        n == Len(flats)
    IN  /\ after.error = "none"
        /\ Len(new) = n
        /\ Len(deltas) = n
        /\ \A m \in 1..n :
               LET flat == flats[n + 1 - m] IN
               /\ new[m].ok
               /\ deltas[m].type = "remove"
               /\ deltas[m].operations = <<new[m].op>>
               /\ new[m].op.pos = flat.start
               /\ new[m].op.howMany = PosOffset(flat.end) - PosOffset(flat.start)
               /\ IF InDocument(root)
                  THEN new[m].op.type = "remove" /\ new[m].op.target = GraveyardPosition
                  ELSE new[m].op.type = "detach"
        /\ \A c \in Conts \ {"graveyard"} :
               after.children[c] = Without(W.children[c], HeldBy(W, flats, c))
        /\ after.children["graveyard"]
               = (IF InDocument(root) THEN NodesOf(W, flats) ELSE <<>>)
                     \o Without(W.children["graveyard"], HeldBy(W, flats, "graveyard"))

\* C21: where a call can be made with the writer active, remove( range )
\* removes the minimal flat ranges of the range from the last to the first,
\* each at the start and with the length it has in the tree before the call,
\* by one RemoveOperation to the graveyard when the root is of the document
\* and by one DetachOperation otherwise, every operation is executed, and
\* the trees lose the nodes of the flat ranges and no other; remove( item )
\* removes the one node of an element, and the characters of a text node, in
\* the same way.
C21_RemoveLastToFirst ==
    (CanCall /\ assertWriterUsageCorrectness(TheWriter)) =>
        /\ \A range \in RangeInputs(world) \cup NotFlatInputs(world) :
               RemovedFlatRanges(Begin, removeRange(Begin, range),
                                 getMinimalFlatRanges(world.children, range),
                                 range.start.root)
        /\ \A e \in WithParent(world) :
               RemovedFlatRanges(Begin, removeItem(Begin, e),
                                 <<Rng(createBefore(world.children, e),
                                       createAfter(world.children, e))>>,
                                 RootOf(world.children, e))
        /\ \A text \in TextInputs(world) :
               RemovedFlatRanges(Begin, removeText(Begin, text), <<text>>, text.start.root)

\* C21 witness: one call of remove with a range from inside the first
\* paragraph to inside the second has made two remove deltas, the first for
\* the part in the second paragraph, and a text node is left to be removed.
C21_Witness ==
    /\ world.last = "remove"
    /\ world.error = "none"
    /\ world.calls = 1
    /\ Len(world.deltas) = 2
    /\ world.deltas[1].operations[1].pos = Pos("main", <<1, 0>>)
    /\ world.deltas[2].operations[1].pos = Pos("main", <<0, 1>>)
    /\ \E text \in TextInputs(world) : removeText(Begin, text).error = "none"

\* the operation removes howMany nodes at pos: to the graveyard in the
\* document, and for good outside it
Removes(op, pos, howMany) ==
    /\ op.pos = pos
    /\ op.howMany = howMany
    /\ IF InDocument(pos.root)
       THEN op.type = "remove" /\ op.target = GraveyardPosition
       ELSE op.type = "detach"

\* the call that took W to after made one delta of the type with two
\* operations, both executed
OneDeltaOfTwo(W, after, type) ==
    /\ after.error = "none"
    /\ Len(DeltasSince(W, after)) = 1
    /\ DeltasSince(W, after)[1].type = type
    /\ Len(AppliedSince(W, after)) = 2
    /\ DeltasSince(W, after)[1].operations
           = <<AppliedSince(W, after)[1].op, AppliedSince(W, after)[2].op>>
    /\ AppliedSince(W, after)[1].ok
    /\ AppliedSince(W, after)[2].ok

\* merge( position ) in state W did what C22 says
Merged(W, position) ==
    LET ch == W.children
        after == merge(W, position)
        before == EntryBefore(ch, position)
        next == EntryAfter(ch, position)
        parent == PosParent(ch, position)
        ops == DeltasSince(W, after)[1].operations
    IN  IF before.k # "el" THEN after.error = "writer-merge-no-element-before"
        ELSE IF next.k # "el" THEN after.error = "writer-merge-no-element-after"
        ELSE /\ OneDeltaOfTwo(W, after, "merge")
             /\ ops[1].type = "move"
             /\ ops[1].sticky
             /\ ops[1].pos = Pos(position.root, position.path \o <<0>>)
             /\ ops[1].howMany = Len(ch[next.v])
             /\ ops[1].target = Pos(position.root,
                                    SetLast(position.path, PosOffset(position) - 1)
                                        \o <<Len(ch[before.v])>>)
             /\ Removes(ops[2], position, 1)
             /\ after.children[before.v] = ch[before.v] \o ch[next.v]
             /\ after.children[next.v] = <<>>
             /\ after.children[parent] = RemoveAt(ch[parent], PosOffset(position), 1)
             /\ ParentOf(after.children, next.v)
                    = IF InDocument(position.root) THEN "graveyard" ELSE "none"

\* the positions merge() is tried with: those of the calls and those between
\* the children of the roots
MergeInputs(W) ==
    PositionInputs(W)
        \cup {p \in {Pos(r, <<i>>) : r \in {"main", "e3", "frag"}, i \in 0..3} :
                 ValidPos(W.children, p)}

\* C22: where a call can be made with the writer active, merge( position )
\* with an element before and an element after the position makes one merge
\* delta of two operations: a sticky move of all children of the element
\* after to the end of the element before, then the removal of one node at
\* the position, which is the element after, now empty; the element before
\* then holds its children followed by those of the element after.  With no
\* element before the call fails with no-element-before, else with no
\* element after it fails with no-element-after.
C22_Merge ==
    (CanCall /\ assertWriterUsageCorrectness(TheWriter)) =>
        \A position \in MergeInputs(world) : Merged(Begin, position)

\* C22 witness: merge between the two paragraphs of the document has just put
\* the character of the second after the two of the first and the second
\* into the graveyard.
C22_Witness ==
    /\ world.last = "merge"
    /\ world.error = "none"
    /\ world.calls = 1
    /\ Len(world.children["e1"]) = 3
    /\ world.children["e1"][3].v = "c"
    /\ world.children["main"] = <<El("e1")>>
    /\ world.children["graveyard"] = <<El("e2")>>

\* split( position ) in state W did what C23 says
Splitted(W, position) ==
    LET ch == W.children
        after == split(W, position)
        element == PosParent(ch, position)
        parent == ParentOf(ch, element)
        ops == DeltasSince(W, after)[1].operations
        copy == ops[1].nodes[1].v
    IN  IF element \notin Elements \/ parent = "none"
        THEN after.error = "writer-split-element-no-parent"
        ELSE /\ OneDeltaOfTwo(W, after, "split")
             /\ ops[1].type = "insert"
             /\ ops[1].pos = Pos(position.root,
                                 SetLast(Front(position.path), IndexOf(ch, element) + 1))
             /\ Len(ops[1].nodes) = 1
             /\ ops[1].nodes[1].k = "el"
             /\ copy \notin Created(W)
             /\ after.name[copy] = W.name[element]
             /\ after.attrs[copy] = W.attrs[element]
             /\ ops[2].type = "move"
             /\ ops[2].sticky
             /\ ops[2].pos = position
             /\ ops[2].howMany = Len(ch[element]) - PosOffset(position)
             /\ ops[2].target = Pos(ops[1].pos.root, ops[1].pos.path \o <<0>>)
             /\ after.children[element] = SubSeq(ch[element], 1, PosOffset(position))
             /\ after.children[element] \o after.children[copy] = ch[element]
             /\ after.children[parent]
                    = InsertAt(ch[parent], IndexOf(ch, element) + 1, <<El(copy)>>)

\* the positions split() is tried with: those of the calls and all those of
\* the two paragraphs
SplitInputs(W) ==
    PositionInputs(W)
        \cup {p \in {Pos("main", <<i, j>>) : i \in 0..2, j \in 0..3} :
                 ValidPos(W.children, p)}

\* C23: where a call can be made with the writer active, split( position )
\* in an element that has a parent makes one split delta of two operations:
\* an insert, right after the element, of a new element with the name and
\* the attributes of the element, then a sticky move of all from the position
\* to the end of the element into the new element at offset 0; the children
\* of the element followed by those of the new element are then the
\* children the element had.  With no parent of the position's parent the
\* call fails with the no-parent error.
C23_Split ==
    (CanCall /\ CanCreate(world) /\ assertWriterUsageCorrectness(TheWriter)) =>
        \A position \in SplitInputs(world) : Splitted(Begin, position)

\* C23 witness: split of the first paragraph after its first character has
\* just left that character in it and put the second into a new paragraph
\* with the same name, right after it.
C23_Witness ==
    /\ world.last = "split"
    /\ world.error = "none"
    /\ world.calls = 1
    /\ Len(world.children["e1"]) = 1
    /\ Len(world.children["main"]) = 3
    /\ world.children["main"][1] = El("e1")
    /\ world.children[world.children["main"][2].v] = <<Ch("b", NoAttrs)>>
    /\ world.name[world.children["main"][2].v] = world.name["e1"]

\* wrap( range, element ) in state W did what C24 says
Wrapped(W, range, elementOrString, fresh) ==
    LET ch == W.children
        after == wrap(W, range, elementOrString, fresh)
        element == IF fresh THEN NewElement(W) ELSE elementOrString
        parent == PosParent(ch, range.start)
        from == PosOffset(range.start)
        to == PosOffset(range.end)
        ops == DeltasSince(W, after)[1].operations
        untouched == /\ after.children = ch
                     /\ after.deltas = W.deltas
                     /\ after.applied = W.applied
    IN  IF ~isFlat(range) THEN TRUE
        ELSE IF Len(ch[element]) > 0
        THEN after.error = "writer-wrap-element-not-empty" /\ untouched
        ELSE IF ParentOf(ch, element) # "none"
        THEN after.error = "writer-wrap-element-attached" /\ untouched
        ELSE /\ OneDeltaOfTwo(W, after, "wrap")
             /\ ops[1].type = "insert"
             /\ ops[1].pos = range.end
             /\ ops[1].nodes = <<El(element)>>
             /\ ops[2].type = "move"
             /\ ops[2].pos = range.start
             /\ ops[2].howMany = to - from
             /\ ops[2].target = Pos(range.end.root, range.end.path \o <<0>>)
             /\ after.children[element] = SubSeq(ch[parent], from + 1, to)
             /\ after.children[parent]
                    = SubSeq(ch[parent], 1, from) \o <<El(element)>>
                          \o SubSeq(ch[parent], to + 1, Len(ch[parent]))
             /\ \A c \in Conts \ {element, parent} : after.children[c] = ch[c]

\* C24: where a call can be made with the writer active, wrap( range,
\* element ) with a flat range and a wrapper that has no parent and no
\* children makes one wrap delta of two operations: the insertion of the
\* wrapper at range.end, then the move of the content of the range to offset 0
\* of the wrapper; the wrapper then stands at the offset of range.start in the
\* parent of the range and holds the former content of the range in order, and
\* the nodes outside the range keep their order around it.  A wrapper with
\* children is refused with wrap-element-not-empty and one with a parent with
\* wrap-element-attached, no delta added, no operation executed, no tree
\* changed.
C24_Wrap ==
    (CanCall /\ assertWriterUsageCorrectness(TheWriter)) =>
        \A range \in RangeInputs(world) :
            /\ \A element \in {"e2", "e3", "e5"} : Wrapped(Begin, range, element, FALSE)
            /\ CanCreate(world) => Wrapped(Begin, range, "blockQuote", TRUE)

\* C24 witness: the first call has wrapped the two paragraphs of the document
\* in a new element, now the only child of the main root.
C24_Witness ==
    /\ world.last = "wrap"
    /\ world.error = "none"
    /\ world.calls = 1
    /\ Len(world.children["main"]) = 1
    /\ world.children["main"][1].k = "el"
    /\ world.children[world.children["main"][1].v] = <<El("e1"), El("e2")>>

\* unwrap( element ) in state W did what C25 says
Unwrapped(W, element) ==
    LET ch == W.children
        after == unwrap(W, element)
        parent == ParentOf(ch, element)
        before == createBefore(ch, element)
        index == PosOffset(before)
        ops == DeltasSince(W, after)[1].operations
    IN  IF parent = "none"
        THEN /\ after.error = "writer-unwrap-element-no-parent"
             /\ after.children = ch
             /\ after.deltas = W.deltas
             /\ after.applied = W.applied
        ELSE /\ OneDeltaOfTwo(W, after, "unwrap")
             /\ ops[1].type = "move"
             /\ ops[1].sticky
             /\ ops[1].pos = Pos(before.root, before.path \o <<0>>)
             /\ ops[1].howMany = Len(ch[element])
             /\ ops[1].target = before
             /\ Removes(ops[2],
                        Pos(before.root, SetLast(before.path, index + Len(ch[element]))),
                        1)
             /\ after.children[element] = <<>>
             /\ SelectSeq(after.children[parent], LAMBDA n : n # El(element))
                    = SubSeq(ch[parent], 1, index) \o ch[element]
                          \o SubSeq(ch[parent], index + 2, Len(ch[parent]))
             /\ ParentOf(after.children, element)
                    = IF InDocument(before.root) THEN "graveyard" ELSE "none"

\* C25: where a call can be made with the writer active, unwrap( element )
\* of an element with a parent makes one unwrap delta of two operations: a
\* sticky move of all children of the element to the position before the
\* element, then the removal of one node at the position the element has after
\* the move, which is the element, now empty; the parent then holds the former
\* children of the element, in order, in the place of the element.  An element
\* with no parent is refused with unwrap-element-no-parent, no delta added, no
\* operation executed, no tree changed.
C25_Unwrap ==
    (CanCall /\ assertWriterUsageCorrectness(TheWriter)) =>
        \A element \in Created(world) : Unwrapped(Begin, element)

\* C25 witness: the first call has unwrapped the first paragraph of the
\* document: its two characters stand in the main root before the second
\* paragraph and the paragraph is in the graveyard, empty.
C25_Witness ==
    /\ world.last = "unwrap"
    /\ world.error = "none"
    /\ world.calls = 1
    /\ Len(world.children["main"]) = 3
    /\ world.children["main"][1].k = "ch"
    /\ world.children["main"][2].k = "ch"
    /\ world.children["main"][3] = El("e2")
    /\ world.children["e1"] = <<>>
    /\ world.children["graveyard"] = <<El("e1")>>

\* the containers that hold element e as a child
ParentsOf(ch, e) == {c \in Conts : \E i \in 1..Len(ch[c]) : ch[c][i] = El(e)}

\* the position is not inside the item: no tree holds a node in itself, and
\* the MoveOperation of an item into itself is refused
Outside(W, item, position) ==
    item.k = "el" => ~IsAncestorOrSelf(W.children, item.v, PosParent(W.children, position))

\* insert( item, position ) in state W did what C26 says
Inserted(W, item, position) ==
    LET ch == W.children
        after == insert(W, item, position)
        ops == AppliedSince(W, after)
        deltas == DeltasSince(W, after)
        target == PosParent(ch, position)
        old == IF item.k = "el" THEN ParentOf(ch, item.v) ELSE "none"
    IN  /\ after.error = "none"
        /\ \A m \in 1..Len(ops) : ops[m].ok
        /\ CASE old # "none" /\ isSameTree(RootOf(ch, item.v), position.root) ->
                    /\ Len(ops) = 1
                    /\ ops[1].op.type = "move"
                    /\ ops[1].op.pos = createBefore(ch, item.v)
                    /\ ops[1].op.howMany = 1
                    /\ ops[1].op.target = position
             [] old # "none" /\ ~isSameTree(RootOf(ch, item.v), position.root) ->
                    /\ Len(ops) = 2
                    /\ Removes(ops[1].op, createBefore(ch, item.v), 1)
                    /\ ops[1].ok
                    /\ ops[2].op.type = "insert"
                    /\ ops[2].op.pos = position
                    /\ ops[2].op.nodes = <<El(item.v)>>
                    /\ <<deltas[1].type, deltas[2].type>> = <<"remove", "insert">>
             [] old = "none" ->
                    /\ Len(ops) >= 1
                    /\ ops[1].op.type = "insert"
                    /\ ops[1].op.pos = position
                    /\ ops[1].op.nodes = ItemNodes(W, item)
                    /\ \A m \in 2..Len(ops) : ops[m].op.type = "marker"
                    /\ deltas[1].type = IF item.k = "text" THEN "weakinsert" ELSE "insert"
                    /\ deltas[1].operations = <<ops[1].op>>
        /\ item.k = "el" => ParentsOf(after.children, item.v) = {target}
        /\ item.k = "text" =>
               after.children[target] = InsertAt(ch[target], PosOffset(position),
                                                 <<Ch(item.v, item.a)>>)

\* C26: where a call can be made with the writer active, insert( item,
\* position ) of an item with a parent in the tree of the position executes
\* one MoveOperation of the item to the position and no other operation; of
\* an item with a parent in another tree it executes the removal of the item
\* from its parent (RemoveOperation in the document, DetachOperation outside)
\* in a remove delta and then an InsertOperation of the item at the position
\* in an insert delta, and no MoveOperation; of a Text with no parent it
\* executes an InsertOperation in a weak-insert delta, and of another item
\* with no parent in an insert delta.  The item is then a child of the parent
\* of the position and of no other container.
C26_Insert ==
    (CanCall /\ assertWriterUsageCorrectness(TheWriter)) =>
        \A item \in ItemInputs, position \in PositionInputs(world) :
            (Insertable(world, item, position) /\ Outside(world, item, position))
                => Inserted(Begin, item, position)

\* C26 witness: the first call has inserted the second paragraph of the
\* document into the detached tree: the paragraph was removed to the
\* graveyard and then inserted, and it is a child of e3 alone.
C26_Witness ==
    /\ world.last = "insert"
    /\ world.error = "none"
    /\ world.calls = 1
    /\ Len(world.applied) = 2
    /\ world.applied[1].op.type = "remove"
    /\ world.applied[2].op.type = "insert"
    /\ ParentsOf(world.children, "e2") = {"e3"}

\* the call that took W to after recorded one MarkerOperation for the name
\* with the old and the new range, and executed it
RecordedMarker(W, after, name, oldRange, newRange) ==
    /\ after.error = "none"
    /\ Len(AppliedSince(W, after)) = 1
    /\ AppliedSince(W, after)[1].ok
    /\ AppliedSince(W, after)[1].op.type = "marker"
    /\ AppliedSince(W, after)[1].op.name = name
    /\ AppliedSince(W, after)[1].op.oldRange = oldRange
    /\ AppliedSince(W, after)[1].op.newRange = newRange
    /\ Len(DeltasSince(W, after)) = 1
    /\ DeltasSince(W, after)[1].operations = <<AppliedSince(W, after)[1].op>>

\* the call that took W to after failed with the error and recorded nothing
RefusedMarker(W, after, error) ==
    /\ after.error = error
    /\ after.applied = W.applied
    /\ after.deltas = W.deltas
    /\ after.markers = W.markers

\* setMarker( name, range ) and removeMarker( name ) in state W did what C27
\* says; NoRange stands for null and for the range left out
MarkerSet(W, name, range) ==
    LET current == W.markers[name]
        set == setMarker(W, name, range)
        removed == removeMarker(W, name)
    IN  /\ IF range = NoRange
           THEN IF current = NoRange
                THEN RefusedMarker(W, set, "writer-setMarker-no-range")
                ELSE /\ RecordedMarker(W, set, name, NoRange, current)
                     /\ set.markers = W.markers
           ELSE /\ RecordedMarker(W, set, name, current, range)
                /\ set.markers = [W.markers EXCEPT ![name] = range]
        /\ IF current = NoRange
           THEN RefusedMarker(W, removed, "writer-removeMarker-no-marker")
           ELSE /\ RecordedMarker(W, removed, name, current, NoRange)
                /\ removed.markers = [W.markers EXCEPT ![name] = NoRange]

\* C27: where a call can be made with the writer active, setMarker( name )
\* with no range for a marker that exists records one MarkerOperation with the
\* old range null and the new range the range of the marker, and the markers
\* are as before; setMarker( name, range ) records the old range as the range
\* of the marker, null when there is none, and the new range as given;
\* removeMarker( name ) records the old range as the range of the marker and
\* the new range null.  setMarker with no range for a name with no marker fails
\* with setMarker-no-range and removeMarker for a name with no marker with
\* removeMarker-no-marker, and neither records an operation.
C27_Markers ==
    (CanCall /\ assertWriterUsageCorrectness(TheWriter)) =>
        \A name \in MarkerNames, range \in RangeInputs(world) \cup {NoRange} :
            MarkerSet(Begin, name, range)

\* C27 witness: the second call has synchronized, with no range given, the
\* marker that the first call had set: the operation has the old range null
\* and the range of the marker as the new one.
C27_Witness ==
    /\ world.last = "setMarker"
    /\ world.error = "none"
    /\ world.calls = 2
    /\ Len(world.applied) = 2
    /\ world.applied[1].op.type = "marker"
    /\ world.applied[1].op.name = "m2"
    /\ world.applied[2].op.type = "marker"
    /\ world.applied[2].op.name = "m2"
    /\ world.applied[2].op.oldRange = NoRange
    /\ world.applied[2].op.newRange = world.markers["m2"]
    /\ world.markers["m2"] # NoRange

\* the values a call of setAttribute can be made with, null among them
ValueInputs == Vals \cup {NoVal}

\* every node of the range holds value for key
AllHave(W, key, value, range) ==
    LET items == Walk(W.children, range.start, range.end)
    IN  \A i \in 1..Len(items) : ItemAttribute(W, items[i], key) = value

\* itemOrRange holds value for key already
HasAlready(W, key, value, itemOrRange) ==
    IF itemOrRange.k = "range"
    THEN AllHave(W, key, value, itemOrRange.range)
    ELSE W.attrs[itemOrRange.item][key] = value

\* the call that made `after` of W applied no operation, added no delta and
\* left the version, the trees and the attributes as they were
NothingApplied(W, after) ==
    /\ after.error = "none"
    /\ after.applied = W.applied
    /\ after.deltas = W.deltas
    /\ after.version = W.version
    /\ after.children = W.children
    /\ after.attrs = W.attrs
    /\ after.markers = W.markers

\* C34: where a call can be made with the writer active, setAttribute( key,
\* value, itemOrRange ) on an item that holds value for key, or on a range all
\* of whose nodes hold it, and removeAttribute( key, itemOrRange ) on an item
\* or nodes that have no value for key, apply no operation, add no delta to
\* the batch and leave the version of the document and the trees unchanged.
C34_NothingToChange ==
    (CanCall /\ assertWriterUsageCorrectness(TheWriter)) =>
        \A key \in Keys, target \in TargetInputs(world) :
            /\ \A value \in ValueInputs :
                   HasAlready(Begin, key, value, target)
                       => NothingApplied(Begin, setAttribute(Begin, key, value, target))
            /\ HasAlready(Begin, key, NoVal, target)
                   => NothingApplied(Begin, removeAttribute(Begin, key, target))

\* C34 witness: the second call was a setAttribute that succeeded, and the one
\* operation applied so far is not an operation on attributes: the
\* setAttribute found the value in place and applied nothing.
C34_Witness ==
    /\ world.last = "setAttribute"
    /\ world.calls = 2
    /\ world.error = "none"
    /\ Len(world.applied) = 1
    /\ Len(world.deltas) = 1
    /\ world.applied[1].op.type \notin {"attribute", "rootattribute"}

\* the markers a DocumentFragment is inserted with: one, both or none, around
\* its text or collapsed before it
FragmentMarkerInputs ==
    {[n \in MarkerNames |-> IF n \in names THEN r ELSE NoRange] :
         names \in SUBSET MarkerNames,
         r \in {Rng(Pos("frag", <<0>>), Pos("frag", <<1>>)),
                Rng(Pos("frag", <<0>>), Pos("frag", <<0>>))}}

\* a range of the fragment re-based onto the position the fragment is
\* inserted at
Rebased(range, position) ==
    Rng(Pos(position.root,
            SetLast(position.path, Last(position.path) + range.start.path[1])
                \o Tail(range.start.path)),
        Pos(position.root,
            SetLast(position.path, Last(position.path) + range.end.path[1])
                \o Tail(range.end.path)))

\* the names of the markers of the fragment, in the order of iteration
FragmentMarkerNames(W) ==
    SelectSeq(MarkerSeq, LAMBDA n : W.fragMarkers[n] # NoRange)

\* insert( fragment, position ) in state W: the first operation applied is
\* the InsertOperation; after it comes one MarkerOperation per marker of the
\* fragment, each alone in a marker delta of the batch, from the range the
\* name had in the model once the nodes were inserted to the re-based range;
\* the model's markers then hold the re-based range under each of the names,
\* and the other markers are as the insertion of the nodes left them
FragmentMarkersInserted(W, position) ==
    Bind2(insert(W, FragmentItem, position), FragmentMarkerNames(W), LAMBDA after, names : (
        LET new == AppliedSince(W, after)
            deltas == DeltasSince(W, after)
            inserted == insert([W EXCEPT !.fragMarkers = [n \in MarkerNames |-> NoRange]],
                               FragmentItem, position)
        IN  /\ after.error = "none"
            /\ after.children = inserted.children
            /\ Len(new) = 1 + Len(names)
            /\ Len(deltas) = 1 + Len(names)
            /\ new[1].op.type = "insert"
            /\ new[1].op.pos = position
            /\ deltas[1].type = "insert"
            /\ deltas[1].operations = <<new[1].op>>
            /\ \A i \in 1..Len(names) :
                   /\ new[i + 1].ok
                   /\ new[i + 1].op.type = "marker"
                   /\ new[i + 1].op.name = names[i]
                   /\ new[i + 1].op.oldRange = inserted.markers[names[i]]
                   /\ new[i + 1].op.newRange = Rebased(W.fragMarkers[names[i]], position)
                   /\ deltas[i + 1].type = "marker"
                   /\ deltas[i + 1].operations = <<new[i + 1].op>>
            /\ \A n \in MarkerNames :
                   after.markers[n] = IF W.fragMarkers[n] # NoRange
                                      THEN Rebased(W.fragMarkers[n], position)
                                      ELSE inserted.markers[n]))

\* C35: where a call can be made with the writer active, insert() of a
\* DocumentFragment with markers leaves in the model's markers, for every
\* marker of the fragment, a marker of that name with the range of the
\* fragment re-based onto the position of the insertion; each is recorded by a
\* MarkerOperation of its own, applied after the InsertOperation, in a delta
\* of the same batch.
C35_FragmentMarkers ==
    (CanCall /\ assertWriterUsageCorrectness(TheWriter)) =>
        \A position \in PositionInputs(world), markers \in FragmentMarkerInputs :
            Insertable(world, FragmentItem, position)
                => FragmentMarkersInserted([Begin EXCEPT !.fragMarkers = markers], position)

\* C35 witness: the first call was an insert of the fragment with its marker
\* m2 at a position that is not the start of its parent; the InsertOperation
\* and the MarkerOperation have been applied and the model has m2 at the
\* re-based range, which is not the range m2 had in the fragment.
C35_Witness ==
    /\ world.last = "insert"
    /\ world.calls = 1
    /\ world.error = "none"
    /\ Len(world.applied) = 2
    /\ world.applied[1].op.type = "insert"
    /\ world.applied[1].op.from = "frag"
    /\ world.applied[2].op.type = "marker"
    /\ world.applied[2].op.name = "m2"
    /\ world.markers["m2"] = world.applied[2].op.newRange
    /\ world.markers["m2"].start.path # <<0>>
    /\ world.markers["m2"].start = world.applied[1].op.pos

PlacesOf(W, n) ==
    {p \in {<<i>> : i \in 0..5} \cup {<<i, j>> : i, j \in 0..5}
            \cup {<<i, j, k>> : i, j, k \in 0..5} :
        /\ ValidPos(W.children, Pos("main", p))
        /\ PosOffset(Pos("main", p)) < Len(W.children[PosParent(W.children, Pos("main", p))])
        /\ W.children[PosParent(W.children, Pos("main", p))][PosOffset(Pos("main", p)) + 1].v = n}

\* C16: when two actors insert at one position of equal trees and exchange
\* the insertions, both of them hold both inserted nodes, once each, at that
\* position and in one order: john's node, then kate's, whoever of the two
\* inserted first.
C16_InsertsAtOnePosition ==
    (/\ clients.synced
     /\ clients.op["john"].type = "insert"
     /\ clients.op["kate"].type = "insert"
     /\ clients.op["john"].pos = clients.op["kate"].pos)
        => \A a \in Actors :
               /\ clients.doc[a].error = "none"
               /\ PlacesOf(clients.doc[a], clients.op["john"].nodes[1].v)
                      = {clients.op["john"].pos.path}
               /\ PlacesOf(clients.doc[a], clients.op["kate"].nodes[1].v)
                      = {ShiftedBy(clients.op["john"].pos, 1).path}

\* C16 witness: kate inserted first, john then at the same position of an
\* element, and after the exchange kate's node follows john's.
C16_Witness ==
    /\ clients.synced
    /\ clients.first = "kate"
    /\ clients.op["john"].type = "insert"
    /\ clients.op["kate"].type = "insert"
    /\ clients.op["john"].pos = clients.op["kate"].pos
    /\ Len(clients.op["john"].pos.path) = 2
    /\ \A a \in Actors :
           PlacesOf(clients.doc[a], clients.op["kate"].nodes[1].v)
               = {ShiftedBy(clients.op["john"].pos, 1).path}

\* the element a position of the document the actors start from is in
StartParent(pos) == PosParent(InitDocument.children, pos)

\* actor i inserted an element and the other actor moved text, and the
\* element went into another element than the ones the text was taken from
\* and put into
ElementAndMoveApart(i) ==
    /\ clients.op[i].type = "insert"
    /\ clients.op[i].nodes[1].k = "el"
    /\ clients.op[Other(i)].type = "move"
    /\ StartParent(clients.op[Other(i)].pos) \in {"e2", "e3"}
    /\ StartParent(clients.op[i].pos)
           \notin {StartParent(clients.op[Other(i)].pos),
                   StartParent(clients.op[Other(i)].target)}

\* C17: when one actor inserts an element and the other moves a flat range of
\* text, at different paths, the exchange leaves both with one tree, in which
\* the element is where its actor put it (its parent has the children it had
\* for that actor) and the moved characters are where the other put them and
\* nowhere else (the elements the range was taken from and put into have the
\* children they had for the mover, and every character has one place).
C17_ElementAndMoveApart ==
    [][\A i \in Actors :
          (~clients.synced /\ clients'.synced /\ ElementAndMoveApart(i))
             => /\ clients'.doc["john"].children = clients'.doc["kate"].children
                /\ \A a \in Actors :
                       LET after == clients'.doc[a].children
                           mine == StartParent(clients.op[i].pos)
                           from == StartParent(clients.op[Other(i)].pos)
                           to == StartParent(clients.op[Other(i)].target)
                       IN  /\ clients'.doc[a].error = "none"
                           /\ after[mine] = clients.doc[i].children[mine]
                           /\ after[from] = clients.doc[Other(i)].children[from]
                           /\ after[to] = clients.doc[Other(i)].children[to]
                           /\ \A c \in {"a", "b", "c", "d", "e"} :
                                  Cardinality(PlacesOf(clients'.doc[a], c)) = 1]_vars

\* C17 witness: john put an element at the start of the root, kate moved two
\* characters from the second paragraph into the first (inside the
\* blockQuote), and after the exchange the element is first in the root and
\* the first paragraph holds four characters.
C17_Witness ==
    /\ clients.synced
    /\ ElementAndMoveApart("john")
    /\ clients.op["john"].pos.path = <<0>>
    /\ clients.op["kate"].howMany = 2
    /\ StartParent(clients.op["kate"].pos) = "e2"
    /\ StartParent(clients.op["kate"].target) = "e3"
    /\ \A a \in Actors :
           /\ clients.doc[a].children["main"][1] = clients.op["john"].nodes[1]
           /\ Len(clients.doc[a].children["e3"]) = 4
           /\ Len(clients.doc[a].children["e2"]) = 1

\* the nodes a move took, as they were in the document the actors start from
MovedNodes(mv) ==
    SubSeq(InitDocument.children[StartParent(mv.pos)],
           PosOffset(mv.pos) + 1, PosOffset(mv.pos) + mv.howMany)

\* the nodes before and after the range a move took, in its parent
BeforeMoved(mv) ==
    SubSeq(InitDocument.children[StartParent(mv.pos)], 1, PosOffset(mv.pos))
AfterMoved(mv) ==
    SubSeq(InitDocument.children[StartParent(mv.pos)], PosOffset(mv.pos) + mv.howMany + 1,
           Len(InitDocument.children[StartParent(mv.pos)]))

\* actor i inserted text and the other actor moved nodes
TextAndMove(i) ==
    /\ clients.op[i].type = "insert"
    /\ clients.op[i].nodes[1].k = "ch"
    /\ clients.op[Other(i)].type = "move"

\* in the element c of the tree of W, node n is right before the nodes after
\* (before the end of c when after is empty)
RightBefore(W, c, n, after) ==
    \E o \in 1..Len(W.children[c]) :
        /\ W.children[c][o] = n
        /\ IF after = <<>> THEN o = Len(W.children[c])
           ELSE /\ o + 1 <= Len(W.children[c])
                /\ W.children[c][o + 1] = after[1]

\* in the element c of the tree of W, node n is right after the nodes before
\* (at the start of c when before is empty)
RightAfter(W, c, n, before) ==
    \E o \in 1..Len(W.children[c]) :
        /\ W.children[c][o] = n
        /\ IF before = <<>> THEN o = 1
           ELSE /\ o > 1
                /\ W.children[c][o - 1] = before[Len(before)]

\* the first half of C18 for actor i as the one who inserts
InsertAtTargetOfMove(i) ==
    (/\ clients.synced
     /\ TextAndMove(i)
     /\ clients.op[i].pos = clients.op[Other(i)].target)
        => \A a \in Actors :
               /\ clients.doc[a].error = "none"
               /\ Cardinality(PlacesOf(clients.doc[a], clients.op[i].nodes[1].v)) = 1
               /\ \E o \in 1..Len(clients.doc[a].children[StartParent(clients.op[i].pos)]) :
                      LET here == clients.doc[a].children[StartParent(clients.op[i].pos)]
                          n == clients.op[Other(i)].howMany
                      IN  /\ here[o] = clients.op[i].nodes[1]
                          /\ o + n <= Len(here)
                          /\ SubSeq(here, o + 1, o + n) = MovedNodes(clients.op[Other(i)])

\* the second half of C18 for actor i as the one who inserts
InsertAtStartOfMoved(i) ==
    (/\ clients.synced
     /\ TextAndMove(i)
     /\ clients.op[i].pos = clients.op[Other(i)].pos)
        => \A a \in Actors :
               /\ clients.doc[a].error = "none"
               /\ Cardinality(PlacesOf(clients.doc[a], clients.op[i].nodes[1].v)) = 1
               /\ RightAfter(clients.doc[a], StartParent(clients.op[i].pos),
                             clients.op[i].nodes[1], BeforeMoved(clients.op[Other(i)]))
               /\ RightBefore(clients.doc[a], StartParent(clients.op[i].pos),
                              clients.op[i].nodes[1], AfterMoved(clients.op[Other(i)]))

SplitAndInsertAfter(s) ==
    /\ clients.op[s].type = "split"
    /\ clients.op[Other(s)].type = "insert"
    /\ clients.op[Other(s)].nodes[1].k = "ch"
    /\ Front(clients.op[Other(s)].pos.path) = Front(clients.op[s].pos.path)
    /\ PosOffset(clients.op[Other(s)].pos) > PosOffset(clients.op[s].pos)

keyCodes == [arrowleft |-> 37, arrowup |-> 38, arrowright |-> 39, arrowdown |-> 40,
             enter |-> 13]

KeyInputs == {keyCodes[k] : k \in DOMAIN keyCodes}

\* the offsets of the paragraph of the tests, foo<strong>bar</strong>baz
MaxOffset == 3

\* the keydown events fired on one view document
MaxKeys == 3

\* a view range in the paragraph
ViewRange(start, end) == [start |-> start, end |-> end]

\* the selections setData() is called with
DataInputs ==
    {r \in {ViewRange(s, e) : s \in 0..MaxOffset, e \in 0..MaxOffset} : r.start <= r.end}

\* beforeEach(): the observer of a new view document, the selection made fake
InitView ==
    [isFake |-> TRUE,
     isEnabled |-> TRUE,
     range |-> ViewRange(0, 0),
     keydowns |-> 0,
     keyCode |-> 0,
     preventDefault |-> 0,
     selectionChange |-> <<>>]

\* _isArrowKeyCode( keyCode )
isArrowKeyCode(keyCode) ==
    keyCode \in {keyCodes.arrowright, keyCodes.arrowleft, keyCodes.arrowup,
                 keyCodes.arrowdown}

\* selection.collapseToStart() / collapseToEnd() on a copy that is not fake
collapseToStart(range) == [range |-> ViewRange(range.start, range.start), isFake |-> FALSE]

collapseToEnd(range) == [range |-> ViewRange(range.end, range.end), isFake |-> FALSE]

\* mutant of handleSelectionMove: the up arrow goes to the end
handleSelectionMove_UpToEnd(v, keyCode) ==
    LET newSelection ==
            IF keyCode = keyCodes.arrowleft
            THEN collapseToStart(v.range)
            ELSE collapseToEnd(v.range)
    IN  [v EXCEPT !.selectionChange = Append(@, newSelection)]

\* FakeSelectionObserver._handleSelectionMove( keyCode ): fires
\* selectionChange with the new selection
handleSelectionMove(v, keyCode) ==
    LET newSelection ==
            IF keyCode = keyCodes.arrowleft \/ keyCode = keyCodes.arrowup
            THEN collapseToStart(v.range)
            ELSE collapseToEnd(v.range)
    IN  [v EXCEPT !.selectionChange = Append(@, newSelection)]

\* mutant of keydown: a disabled observer handles the key
keydown_WhenDisabled(v, keyCode) ==
    LET data == [v EXCEPT !.keydowns = @ + 1, !.keyCode = keyCode,
                          !.preventDefault = 0, !.selectionChange = <<>>]
    IN  IF v.isFake /\ isArrowKeyCode(keyCode)
        THEN handleSelectionMove([data EXCEPT !.preventDefault = @ + 1], keyCode)
        ELSE data

\* viewDocument.fire( 'keydown', data ) with a new data object and new
\* listeners, and the observer's listener of keydown
keydown(v, keyCode) ==
    LET data == [v EXCEPT !.keydowns = @ + 1, !.keyCode = keyCode,
                          !.preventDefault = 0, !.selectionChange = <<>>]
    IN  IF v.isFake /\ isArrowKeyCode(keyCode) /\ v.isEnabled
        THEN handleSelectionMove([data EXCEPT !.preventDefault = @ + 1], keyCode)
        ELSE data

\* viewDocument.selection.setFake( value )
setFake(value) ==
    /\ view' = [view EXCEPT !.isFake = value]
    /\ UNCHANGED <<scopeVars, world, clients, engine, converter>>

\* observer.disable()
disable ==
    /\ view.isEnabled
    /\ view' = [view EXCEPT !.isEnabled = FALSE]
    /\ UNCHANGED <<scopeVars, world, clients, engine, converter>>

\* checkEventPrevention( keyCode ): a keydown on the document as it is
checkEventPrevention ==
    /\ view.keydowns < MaxKeys
    /\ \E keyCode \in KeyInputs : view' = keydown(view, keyCode)
    /\ UNCHANGED <<scopeVars, world, clients, engine, converter>>

\* checkSelectionChange( initialData, keyCode ): setData, setFake, a keydown
checkSelectionChange ==
    /\ view.keydowns < MaxKeys
    /\ \E initialData \in DataInputs, keyCode \in KeyInputs :
           view' = keydown([view EXCEPT !.range = initialData, !.isFake = TRUE], keyCode)
    /\ UNCHANGED <<scopeVars, world, clients, engine, converter>>

\* the step is a keydown on the view document
KeydownFired == view'.keydowns = view.keydowns + 1

ArrowKeys == {keyCodes.arrowleft, keyCodes.arrowright, keyCodes.arrowup, keyCodes.arrowdown}

OneSelectionChange(v) ==
    /\ Len(v.selectionChange) = 1
    /\ v.selectionChange[1].range.start = v.selectionChange[1].range.end
    /\ v.selectionChange[1].range.start
           = IF v.keyCode \in {keyCodes.arrowleft, keyCodes.arrowup}
             THEN v.range.start
             ELSE v.range.end

MaxHistory == 3

\* the places of the main root the operations of the history insert at
EnginePositions == {Pos("main", <<i>>) : i \in 0..2}

\* history: the operations applied to the document, the operation of version
\* v at index v + 1; B: the foreign operation; received: B as it came;
\* context: whether B goes first at a place both insert at; steps: the
\* transformations of B made so far
InitEngine ==
    [history |-> <<>>,
     B |-> BlankOp,
     received |-> BlankOp,
     context |-> FALSE,
     steps |-> 0,
     transforming |-> FALSE]

\* document.version
Version(e) == Len(e.history)

\* mutant of nextOperation: the engine takes the operation applied last
nextOperation_Latest(history, B) == history[Len(history)]

\* the next operation A applied to the document since the version of B
nextOperation(history, B) == history[B.baseVersion + 1]

\* the actor applies an operation of its own to its document
LocalApply ==
    /\ ~engine.transforming
    /\ Version(engine) < MaxHistory
    /\ \E position \in EnginePositions :
           engine' = [engine EXCEPT !.history =
               Append(@, InsertOperation(position, <<Ch("x", NoAttrs)>>, "", Version(engine)))]
    /\ UNCHANGED <<scopeVars, world, clients, view, converter>>

\* an operation of another actor arrives, made against version v
Receive ==
    /\ ~engine.transforming
    /\ Version(engine) < MaxHistory
    /\ \E v \in 0..Version(engine), position \in EnginePositions, context \in BOOLEAN :
           engine' = [engine EXCEPT
               !.B = InsertOperation(position, <<Ch("y", NoAttrs)>>, "", v),
               !.received = InsertOperation(position, <<Ch("y", NoAttrs)>>, "", v),
               !.context = context,
               !.steps = 0,
               !.transforming = TRUE]
    /\ UNCHANGED <<scopeVars, world, clients, view, converter>>

\* one turn of the loop: B' = transform( B, A, context ), B <- B', v <- v + 1
TransformStep ==
    /\ engine.transforming
    /\ engine.B.baseVersion < Version(engine)
    /\ engine' = [engine EXCEPT
           !.B = transform(@, nextOperation(engine.history, engine.B), engine.context),
           !.steps = @ + 1]
    /\ UNCHANGED <<scopeVars, world, clients, view, converter>>

\* the end of the loop: B is valid against the version of the document, and
\* is applied
ApplyTransformed ==
    /\ engine.transforming
    /\ engine.B.baseVersion >= Version(engine)
    /\ engine' = [engine EXCEPT !.history = Append(@, engine.B), !.transforming = FALSE]
    /\ UNCHANGED <<scopeVars, world, clients, view, converter>>

\* operation b transformed by the operations i..j of the history, in order
RECURSIVE Against(_, _, _, _, _)
Against(b, history, i, j, context) ==
    IF i > j THEN b
    ELSE Against(transform(b, history[i], context), history, i + 1, j, context)

\* the loop so far: B has been transformed by the operations of the versions
\* v, v + 1, ... of the history, one per step, in that order, and its
\* baseVersion has gone up by one at each step
LoopSoFar(e) ==
    /\ e.B.baseVersion = e.received.baseVersion + e.steps
    /\ e.B = Against(e.received, e.history, e.received.baseVersion + 1,
                     e.received.baseVersion + e.steps, e.context)

\* the loop is over: B has the version w the document had, w - v steps were
\* made, and B is the operation of version w of the history
LoopOver(e) ==
    /\ e.steps = e.B.baseVersion - e.received.baseVersion
    /\ e.B.baseVersion < Version(e)
    /\ e.history[e.B.baseVersion + 1] = e.B
    /\ e.steps = 0 => e.B = e.received

\* C30: an operation B received with baseVersion v by a document at version
\* w >= v is transformed by the applied operations of the versions v, v + 1,
\* ..., w - 1 in that order, one per step, its baseVersion going up by one
\* at each step; the loop ends, after w - v steps (none when w = v, B then as
\* received), with B at baseVersion w.
C30_TransformLoop ==
    /\ [](engine.received # BlankOp =>
             /\ LoopSoFar(engine)
             /\ engine.steps <= Version(engine) - engine.received.baseVersion
             /\ ~engine.transforming => LoopOver(engine))
    /\ (engine.transforming ~> ~engine.transforming)

\* C30 witness: an operation received with baseVersion 0 by a document at
\* version 2 has been transformed in two steps, which took its place from
\* offset 1 to offset 3, and applied as the operation of version 2.
C30_Witness ==
    /\ ~engine.transforming
    /\ engine.received.baseVersion = 0
    /\ engine.received.pos = Pos("main", <<1>>)
    /\ engine.steps = 2
    /\ engine.B.baseVersion = 2
    /\ engine.B.pos = Pos("main", <<3>>)
    /\ engine.history[3] = engine.B

(***************************************************************************)
(* DomConverter (treeview/domconverter.js): the bindings between DOM nodes *)
(* and view nodes and the conversions between the two trees.  The nodes of *)
(* each tree are numbered in the order of their creation; 0 stands for     *)
(* null and undefined.  `converter` holds the nodes, the two binding maps, *)
(* the value the last conversion returned (ret) and the last call made.    *)
(***************************************************************************)
\* new ViewElement( name ) with its attributes and children; fillerOffset is
\* what getBlockFillerOffset() answers, -1 where the element has no such
\* method or needs no filler
ViewElement(name, attributes, children, fillerOffset) ==
    [k |-> "element", name |-> name, data |-> "", attributes |-> attributes,
     children |-> children, fillerOffset |-> fillerOffset]

\* new ViewText( data )
ViewText(data) ==
    [k |-> "text", name |-> "", data |-> data, attributes |-> {}, children |-> <<>>,
     fillerOffset |-> -1]

\* new ViewDocumentFragment()
ViewDocumentFragment(children) ==
    [k |-> "fragment", name |-> "", data |-> "", attributes |-> {}, children |-> children,
     fillerOffset |-> -1]

\* String.prototype.toUpperCase on the names of the elements
toUpperCase(name) ==
    CASE name = "p" -> "P"
      [] name = "b" -> "B"
      [] name = "div" -> "DIV"
      [] name = "br" -> "BR"
      [] OTHER -> name

\* domNode.tagName.toLowerCase()
toLowerCase(tagName) ==
    CASE tagName = "P" -> "p"
      [] tagName = "B" -> "b"
      [] tagName = "DIV" -> "div"
      [] tagName = "BR" -> "br"
      [] OTHER -> tagName

\* domDocument.createElement( name ): the tagName of an HTML element is in
\* upper case.  filler: the node is one that isBlockFiller recognises;
\* inlineFiller: the text starts with the inline filler
createDomElement(name) ==
    [k |-> "element", tagName |-> toUpperCase(name), data |-> "", attributes |-> {},
     childNodes |-> <<>>, filler |-> FALSE, inlineFiller |-> FALSE]

\* domDocument.createTextNode( data )
createTextNode(data) ==
    [k |-> "text", tagName |-> "", data |-> data, attributes |-> {}, childNodes |-> <<>>,
     filler |-> FALSE, inlineFiller |-> FALSE]

\* domDocument.createDocumentFragment()
createDocumentFragment ==
    [k |-> "fragment", tagName |-> "", data |-> "", attributes |-> {}, childNodes |-> <<>>,
     filler |-> FALSE, inlineFiller |-> FALSE]

\* this.blockFiller( domDocument ), the default BR_FILLER: a node that
\* isBlockFiller recognises
BR_FILLER == [createDomElement("br") EXCEPT !.filler = TRUE]

\* isBlockFiller( domNode, this.blockFiller )
isBlockFiller(C, domNode) == C.dom[domNode].filler

\* isInlineFiller( domText ): the text is the inline filler and nothing else
isInlineFiller(node) == node.inlineFiller /\ node.data = ""

\* getDataWithoutFiller( domText )
getDataWithoutFiller(node) == node.data

\* the options of a conversion: bind left out or true, withChildren left out,
\* true or false
OptionInputs ==
    {[bind |-> FALSE, withChildren |-> "undefined"],
     [bind |-> TRUE, withChildren |-> "undefined"],
     [bind |-> TRUE, withChildren |-> "false"],
     [bind |-> FALSE, withChildren |-> "true"]}

\* options.withChildren || options.withChildren === undefined
WithChildren(options) == options.withChildren \in {"true", "undefined"}

NoCall == [op |-> "", node |-> 0, other |-> 0, options |-> [bind |-> FALSE, withChildren |-> "undefined"]]

\* a view tree and a DOM tree that no conversion made:
\*   view: <p class="x">foo<b></b></p>, and a fragment holding an empty
\*         <div> that needs a block filler
\*   DOM:  <P class="x">foo<B>(inline filler)</B></P>, and an empty fragment
InitConverter ==
    [view |-> <<ViewElement("p", {<<"class", "x">>}, <<2, 3>>, -1),
                ViewText("foo"),
                ViewElement("b", {}, <<>>, -1),
                ViewElement("div", {}, <<>>, 0),
                ViewDocumentFragment(<<4>>)>>,
     dom |-> <<[createDomElement("p") EXCEPT !.attributes = {<<"class", "x">>},
                                              !.childNodes = <<2, 3>>],
               createTextNode("foo"),
               [createDomElement("b") EXCEPT !.childNodes = <<4>>],
               [createTextNode("") EXCEPT !.inlineFiller = TRUE],
               createDocumentFragment>>,
     domToViewMapping |-> <<0, 0, 0, 0, 0>>,
     viewToDomMapping |-> <<0, 0, 0, 0, 0>>,
     ret |-> 0,
     calls |-> 0,
     last |-> NoCall]

\* a new DOM node, not yet in any map; ret is the node
NewDom(C, node) ==
    [C EXCEPT !.dom = Append(@, node),
              !.domToViewMapping = Append(@, 0),
              !.ret = Len(C.dom) + 1]

\* a new view node, not yet in any map; ret is the node
NewView(C, node) ==
    [C EXCEPT !.view = Append(@, node),
              !.viewToDomMapping = Append(@, 0),
              !.ret = Len(C.view) + 1]

\* bindElements( domElement, viewElement )
bindElements(C, domElement, viewElement) ==
    [C EXCEPT !.domToViewMapping[domElement] = viewElement,
              !.viewToDomMapping[viewElement] = domElement]

\* bindDocumentFragments( domFragment, viewFragment )
bindDocumentFragments(C, domFragment, viewFragment) ==
    [C EXCEPT !.domToViewMapping[domFragment] = viewFragment,
              !.viewToDomMapping[viewFragment] = domFragment]

\* getCorrespondingViewElement( domElement )
getCorrespondingViewElement(C, domElement) == C.domToViewMapping[domElement]

\* getCorrespondingViewDocumentFragment( domFragment )
getCorrespondingViewDocumentFragment(C, domFragment) == C.domToViewMapping[domFragment]

\* getCorrespondingDomElement( viewElement )
getCorrespondingDomElement(C, viewElement) == C.viewToDomMapping[viewElement]

\* getCorrespondingDomDocumentFragment( viewDocumentFragment )
getCorrespondingDomDocumentFragment(C, viewFragment) == C.viewToDomMapping[viewFragment]

\* getCorrespondingView( domNode ) for an element or a document fragment,
\* which is what domToView asks it for
getCorrespondingView(C, domNode) ==
    IF C.dom[domNode].k = "element"
    THEN getCorrespondingViewElement(C, domNode)
    ELSE getCorrespondingViewDocumentFragment(C, domNode)

\* getCorrespondingDom( viewNode ) for an element or a document fragment,
\* which is what viewToDom asks it for
getCorrespondingDom(C, viewNode) ==
    IF C.view[viewNode].k = "element"
    THEN getCorrespondingDomElement(C, viewNode)
    ELSE getCorrespondingDomDocumentFragment(C, viewNode)

\* a list of child nodes without the node
WithoutNode(s, x) == SelectSeq(s, LAMBDA y : y # x)

\* domElement.appendChild( child ): the child leaves the parent it had
appendChild(C, domElement, child) ==
    [C EXCEPT !.dom = [i \in 1..Len(C.dom) |->
        IF i = domElement
        THEN [C.dom[i] EXCEPT !.childNodes = Append(WithoutNode(@, child), child)]
        ELSE [C.dom[i] EXCEPT !.childNodes = WithoutNode(@, child)]]]

\* viewElement.appendChildren( child )
appendChildren(C, viewElement, child) ==
    [C EXCEPT !.view[viewElement].children = Append(@, child)]

RECURSIVE viewToDom(_, _, _)
RECURSIVE viewChildrenToDom(_, _, _, _, _)
\* viewToDom( viewNode, domDocument, options ); the value returned is in ret
viewToDom(C0, viewNode, options) ==
    Bind(C0, LAMBDA C : (
        IF C.view[viewNode].k = "text"
        THEN NewDom(C, createTextNode(C.view[viewNode].data))
        ELSE IF getCorrespondingDom(C, viewNode) # 0
        THEN [C EXCEPT !.ret = getCorrespondingDom(C, viewNode)]
        ELSE Bind(IF C.view[viewNode].k = "fragment"
                  THEN NewDom(C, createDocumentFragment)
                  ELSE NewDom(C, [createDomElement(C.view[viewNode].name)
                                      EXCEPT !.attributes = C.view[viewNode].attributes]),
                  LAMBDA C1 : (
                 LET domElement == C1.ret
                     C2 == IF ~options.bind THEN C1
                           ELSE IF C.view[viewNode].k = "fragment"
                           THEN bindDocumentFragments(C1, domElement, viewNode)
                           ELSE bindElements(C1, domElement, viewNode)
                     C3 == IF WithChildren(options)
                           THEN viewChildrenToDom(C2, viewNode, domElement, options, 1)
                           ELSE C2
                 IN  [C3 EXCEPT !.ret = domElement]))))

\* the loop of viewToDom over viewChildrenToDom( viewNode, domDocument,
\* options ) from child i on, each node yielded being appended to domElement
viewChildrenToDom(C0, viewElement, domElement, options, i) ==
    Bind(C0, LAMBDA C : (
        LET fillerPositionOffset == C.view[viewElement].fillerOffset
            offset == i - 1
        IN  Bind(IF fillerPositionOffset = offset
                 THEN Bind(NewDom(C, BR_FILLER),
                           LAMBDA F : appendChild(F, domElement, F.ret))
                 ELSE C,
                 LAMBDA C1 : (
                IF i > Len(C.view[viewElement].children) THEN C1
                ELSE Bind(viewToDom(C1, C.view[viewElement].children[i], options),
                          LAMBDA C2 : (
                         viewChildrenToDom(appendChild(C2, domElement, C2.ret), viewElement,
                                           domElement, options, i + 1)))))))

RECURSIVE domToView(_, _, _)
RECURSIVE domChildrenToView(_, _, _, _, _)
\* domToView( domNode, options ); the value returned is in ret
domToView(C0, domNode, options) ==
    Bind(C0, LAMBDA C : (
        IF isBlockFiller(C, domNode)
        THEN [C EXCEPT !.ret = 0]
        ELSE IF C.dom[domNode].k = "text"
        THEN IF isInlineFiller(C.dom[domNode])
             THEN [C EXCEPT !.ret = 0]
             ELSE NewView(C, ViewText(getDataWithoutFiller(C.dom[domNode])))
        ELSE IF getCorrespondingView(C, domNode) # 0
        THEN [C EXCEPT !.ret = getCorrespondingView(C, domNode)]
        ELSE Bind(IF C.dom[domNode].k = "fragment"
                  THEN NewView(C, ViewDocumentFragment(<<>>))
                  ELSE NewView(C, ViewElement(toLowerCase(C.dom[domNode].tagName),
                                              C.dom[domNode].attributes, <<>>, -1)),
                  LAMBDA C1 : (
                 LET viewElement == C1.ret
                     C2 == IF ~options.bind THEN C1
                           ELSE IF C.dom[domNode].k = "fragment"
                           THEN bindDocumentFragments(C1, domNode, viewElement)
                           ELSE bindElements(C1, domNode, viewElement)
                     C3 == IF WithChildren(options)
                           THEN domChildrenToView(C2, domNode, viewElement, options, 1)
                           ELSE C2
                 IN  [C3 EXCEPT !.ret = viewElement]))))

\* the loop of domToView over domChildrenToView( domNode, options ) from
\* child i on, each node yielded being appended to viewElement
domChildrenToView(C0, domNode, viewElement, options, i) ==
    Bind(C0, LAMBDA C : (
        IF i > Len(C.dom[domNode].childNodes) THEN C
        ELSE Bind(domToView(C, C.dom[domNode].childNodes[i], options), LAMBDA C1 : (
                 domChildrenToView(IF C1.ret # 0
                                   THEN appendChildren(C1, viewElement, C1.ret)
                                   ELSE C1,
                                   domNode, viewElement, options, i + 1)))))

\* the nodes of a kind
DomNodes(C, k) == {d \in 1..Len(C.dom) : C.dom[d].k = k}

ViewNodes(C, k) == {v \in 1..Len(C.view) : C.view[v].k = k}

CanConvert == converter.calls < MaxConversions

\* a call of the converter: its result, and what was called
Converted(C, op, node, other, options) ==
    /\ converter' = [C EXCEPT !.calls = converter.calls + 1,
                              !.last = [op |-> op, node |-> node, other |-> other,
                                        options |-> options]]
    /\ UNCHANGED <<scopeVars, world, clients, view, engine>>

CallBindElements ==
    /\ CanConvert
    /\ \E d \in DomNodes(converter, "element"), v \in ViewNodes(converter, "element") :
           Converted(bindElements(converter, d, v), "bindElements", d, v, NoCall.options)

CallBindDocumentFragments ==
    /\ CanConvert
    /\ \E d \in DomNodes(converter, "fragment"), v \in ViewNodes(converter, "fragment") :
           Converted(bindDocumentFragments(converter, d, v), "bindDocumentFragments", d, v,
                     NoCall.options)

CallViewToDom ==
    /\ CanConvert
    /\ \E v \in 1..Len(converter.view), options \in OptionInputs :
           Converted(viewToDom(converter, v, options), "viewToDom", v, 0, options)

CallDomToView ==
    /\ CanConvert
    /\ \E d \in 1..Len(converter.dom), options \in OptionInputs :
           Converted(domToView(converter, d, options), "domToView", d, 0, options)

(***************************************************************************)
(* Properties of the DomConverter.                                         *)
(***************************************************************************)
\* the conversion that took C to after returned node r, made no node and no
\* binding, and moved no child
ReturnedAsIs(C, after, r) ==
    /\ after.ret = r
    /\ after.view = C.view
    /\ after.dom = C.dom
    /\ after.domToViewMapping = C.domToViewMapping
    /\ after.viewToDomMapping = C.viewToDomMapping

\* the step is a call of op
ConverterCall(op) == converter'.calls = converter.calls + 1 /\ converter'.last.op = op

\* the maps of after hold for the nodes of C what they held in C, and
\* nothing for the nodes made since
NoBinding(C, after) ==
    /\ SubSeq(after.domToViewMapping, 1, Len(C.dom)) = C.domToViewMapping
    /\ SubSeq(after.viewToDomMapping, 1, Len(C.view)) = C.viewToDomMapping
    /\ \A d \in (Len(C.dom) + 1)..Len(after.dom) : after.domToViewMapping[d] = 0
    /\ \A v \in (Len(C.view) + 1)..Len(after.view) : after.viewToDomMapping[v] = 0

\* no text node is a key or a value of a map
NoTextBound(C) ==
    /\ \A d \in 1..Len(C.dom) :
           C.domToViewMapping[d] # 0
               => C.dom[d].k # "text" /\ C.view[C.domToViewMapping[d]].k # "text"
    /\ \A v \in 1..Len(C.view) :
           C.viewToDomMapping[v] # 0
               => C.view[v].k # "text" /\ C.dom[C.viewToDomMapping[v]].k # "text"

\* C36: after bindElements( d, v ), getCorrespondingViewElement( d ) is v and
\* getCorrespondingDomElement( v ) is d, and with any options viewToDom( v )
\* returns d and domToView( d ) returns v, making no node, converting no
\* child and changing no binding; a viewToDom or domToView called without
\* options.bind adds no entry to the maps, and no text node is ever in a map.
C36_BoundElements ==
    /\ [][ConverterCall("bindElements") =>
              LET C == converter'
                  d == converter'.last.node
                  v == converter'.last.other
              IN  /\ getCorrespondingViewElement(C, d) = v
                  /\ getCorrespondingDomElement(C, v) = d
                  /\ \A options \in OptionInputs :
                         /\ ReturnedAsIs(C, viewToDom(C, v, options), d)
                         /\ ReturnedAsIs(C, domToView(C, d, options), v)]_vars
    /\ [][((ConverterCall("viewToDom") \/ ConverterCall("domToView"))
              /\ ~converter'.last.options.bind)
             => NoBinding(converter, converter')]_vars
    /\ [](NoTextBound(converter))

Init == InitScope /\ world = InitWorld /\ clients = InitClients /\ view = InitView /\ engine = InitEngine
        /\ converter = InitConverter

Next ==
    \/ change
    \/ \E b \in GivenObjs : enqueueChange(b)
    \/ CallbackReturn
    \/ ListenerReturn
    \/ Throw

Spec == Init /\ [][Next]_vars

\* the writer at work: its calls in the callback of one change of the model
NextWriter ==
    \/ EnqueueWriter
    \/ ChangeDetached
    \/ CallInsert
    \/ CallInsertText
    \/ CallInsertElement
    \/ CallAppend
    \/ CallAppendText
    \/ CallAppendElement
    \/ CallSetAttribute
    \/ CallSetAttributes
    \/ CallRemoveAttribute
    \/ CallClearAttributes
    \/ CallMove
    \/ CallRemove
    \/ CallMerge
    \/ CallRename
    \/ CallSplit
    \/ CallWrap
    \/ CallUnwrap
    \/ CallSetMarker
    \/ CallRemoveMarker

SpecWriter == Init /\ [][NextWriter]_vars

\* the actors at work: one operation each, then the exchange
NextTransform ==
    \/ EnqueueWriter
    \/ JohnInsert
    \/ JohnSplit
    \/ KateSplit
    \/ KateInsert
    \/ JohnMove
    \/ KateMove
    \/ syncClients

SpecTransform == Init /\ [][NextTransform]_vars

\* the tests of the FakeSelectionObserver: what they do before a keydown, and
\* the keydown
NextObserver ==
    \/ \E value \in BOOLEAN : setFake(value)
    \/ disable
    \/ checkEventPrevention
    \/ checkSelectionChange

SpecObserver == Init /\ [][NextObserver]_vars

\* the engine at work: operations of the actor, and operations received,
\* transformed and applied
NextEngine ==
    \/ LocalApply
    \/ Receive
    \/ TransformStep
    \/ ApplyTransformed

SpecEngine == Init /\ [][NextEngine]_vars

\* the loop is a piece of synchronous code: once begun it runs to its end
SpecEngineFair ==
    SpecEngine /\ WF_vars(TransformStep) /\ WF_vars(ApplyTransformed)

\* the DomConverter at work: bindings and conversions
NextConverter ==
    \/ CallBindElements
    \/ CallBindDocumentFragments
    \/ CallViewToDom
    \/ CallDomToView

SpecConverter == Init /\ [][NextConverter]_vars

====
